---------------------------- MODULE Spec2Model ----------------------------
(***************************************************************************)
(* The client-side network core (src/src/protocol/network): the task       *)
(* registry of NetworkImpl.  Two threads act on it:                         *)
(*   - the shell thread, which calls the facade (fetch_captcha, signup,     *)
(*     login, connect_chat, send_chat_message, cancel);                     *)
(*   - the runtime thread, a current_thread tokio runtime whose block_on    *)
(*     future is the result pump (send_result_back) and which polls the     *)
(*     spawned tasks.  One poll of one future is one step; while the pump   *)
(*     has not yielded, no spawned task is polled.                          *)
(* A submission is identified by its index n (the order of the facade       *)
(* calls); its generation gen[n] is what the generation counter gave it.    *)
(* The chat session (connect_chat, send_chat_message, send_message_back     *)
(* and the sender / receiver / watcher of worker.rs) is modelled in the     *)
(* second half; a session is identified by the submission that made it.     *)
(***************************************************************************)
EXTENDS Naturals, Integers, Sequences, FiniteSets

\* Bounds of the model.
MaxTasks == 2

\* Frames the server sends over all sessions of one run.
MaxFrames == 2

VARIABLES
    generation,          \* NetworkImpl.generation: the next value to mint
    task_records,        \* NetworkImpl.task_records: generation -> submission
    cancellation_token,  \* NetworkImpl.cancellation_token: tripped or not
    result_q,            \* result_tx / result_rx: the unbounded result channel
    nsub,                \* number of facade submissions made so far
    kind,                \* per submission: which facade operation made it
    gen,                 \* per submission: the generation create_task minted
    st,                  \* per submission: state of the spawned task
    gate,                \* per submission: permit of the start gate (Notify)
    posted,              \* per submission: the results its task sent, in order
    shellPc,             \* shell thread: position inside create_task / cancel
    shellSub,            \* shell thread: the submission being created / aborted
    pumpPc,              \* result pump: position inside send_result_back
    pumpSub,             \* result pump: the submission whose record it removed
    pumpEnv,             \* result pump: the envelope it dequeued
    cbLog,               \* user callbacks invoked so far, in order
    returned,            \* generations the facade calls returned, in order
    cancelOk,            \* generations for which cancel returned Ok
    dropped,             \* generations of results the pump found no record for
    panicked,            \* submissions whose user callback panicked
    message_id,          \* NetworkImpl.message_id: the next message_seq
    message_seq,         \* per submission: the message_id send_chat_message took
    inner,               \* per submission: position of the inner future
    message_buffer,      \* NetworkImpl.message_buffer: message_seq with a notifier
    notified,            \* per submission: permit stored in its notifier
    to_sender,           \* per session: frames queued for the sender (to_sender)
    acked,               \* message_seq whose notifier an ACK has notified
    session_record,      \* NetworkImpl.session_record: the session in the slot
    sender,              \* per session: state of the sender sub-task
    receiver,            \* per session: state of the receiver sub-task
    shutdown,            \* per session: value of the watch channel of the watcher
    dispatcher,          \* per session: state of send_message_back
    message_rx,          \* per session: frames queued for send_message_back
    wire_in,             \* per session: frames the receiver read, in order
    streamLog,           \* stream callback invocations so far, in order
    sent_on,             \* per submission: the session its frame was queued on
    late,                \* per submission: the session whose shutdown signal
                         \* was tripped when send_chat_message was called
    in_flight,           \* sends that waited for their ACK, none read yet,
                         \* when the receiver of their session ended
    after_connect,       \* per submission: a success callback of connect_chat
                         \* had been invoked when send_chat_message was called
    lifecycle,           \* App.lifecycle
    current_page,        \* App.current_page: which Page it is
    chat_generation,     \* App.chat_generation
    stream_buffer,       \* App.stream_buffer
    app_message_rx,      \* App.message_tx / App.message_rx: the message bus
    chat_history,        \* LobbyPage.chat_history of the current page
    captcha_generation,  \* LoginPage.captcha_generation of the current page
    captcha_id,          \* LoginPage.captcha_id
    captcha_base64,      \* LoginPage.captcha_base64
    captcha_texture,     \* LoginPage.captcha_texture
    login_generation,    \* LoginPage.login_generation
    login_state,         \* LoginPage.login_state
    outstanding,         \* requests of the shell whose callback is to come
    streaming,           \* a chat session feeds the stream callback
    arrived,             \* stream messages sent to the bus so far
    clicks,              \* inputs the user has made so far
    recent,              \* generations of the most recent captcha and login
                         \* request of the current LoginPage
    stale                \* messages LoginPage::update_one left without effect
                         \* for their generation

coreVars == <<generation, task_records, cancellation_token, result_q, nsub,
              kind, gen, st, gate, posted, shellPc, shellSub, pumpPc, pumpSub,
              pumpEnv, cbLog, returned, cancelOk, dropped>>

\* State of the pending table and of the sends
chatVars == <<message_buffer, notified, to_sender, acked>>

\* State of the sessions
wsVars == <<session_record, sender, receiver, shutdown, dispatcher,
            message_rx, wire_in, streamLog>>

\* State of the shell: the App, its current page and the requests it made
appVars == <<lifecycle, current_page, chat_generation, stream_buffer,
             app_message_rx, chat_history, captcha_generation, captcha_id,
             captcha_base64, captcha_texture, login_generation, login_state,
             outstanding, streaming, arrived, clicks, recent, stale>>

\* What is remembered of the sends for the properties, and with it the
\* state of the shell, which no step of the core reads or writes
histVars == <<sent_on, late, in_flight, after_connect, appVars>>

sessVars == <<panicked, message_id, message_seq, inner, chatVars, wsVars,
              histVars>>

vars == <<coreVars, sessVars>>

--------------------------------------------------------------------------
\* Values

None == -1

Subs == 0 .. (MaxTasks - 1)

\* connect_chat mints two generations per call, the others one.
GenVals == 0 .. (2 * MaxTasks)

\* The facade operations that spawn work (network.rs, NetworkInterface).
Kinds == {"Captcha", "Signup", "Login", "Session", "Chat"}

\* What the inner future of each operation can return, inside its event.
Outcomes(k) ==
    CASE k = "Captcha" -> {"CaptchaData", "CaptchaError::FallbackError"}
      [] k = "Signup"  -> {"Unit", "SignupError::FallbackError"}
      [] k = "Login"   -> {"TokenInfo", "LoginError::FallbackError"}
      [] k = "Session" -> {"ChatMetaData", "ChatConnError::FallbackError"}
      [] k = "Chat"    -> {"MessageSent", "MessageError::MissingSession",
                           "MessageError::FallbackError"}

\* NetworkResult = Result<NetworkEvent, NetworkError>
OkResult(k, v) == [ok |-> TRUE, kind |-> k, val |-> v]

ErrResult(e) == [ok |-> FALSE, kind |-> "NetworkError", val |-> e]

\* An envelope tagged with a fixed generation (not the code's)
WithGenerationZero(g, r) == [generation |-> 0, result |-> r]

\* WithGeneration<T>
WithGeneration(g, r) == [generation |-> g, result |-> r]

\* A timeout branch that sent another variant (not the code's)
TimeoutResultAborted == ErrResult("Aborted")

\* Err(NetworkError::Timeout), the result of the timeout branch
TimeoutResult == ErrResult("Timeout")

\* Err(NetworkError::SysCancelled), the result of the shutdown branch
SysCancelledResult == ErrResult("SysCancelled")

NoEnv == WithGeneration(None, ErrResult("none"))

--------------------------------------------------------------------------
\* Helpers that stand for one expression of the code each

\* A counter that does not advance (not the code's)
FetchAddStuck(c) == c

\* AtomicU64::fetch_add(1): the counter's new value (the old one is returned).
\* The counter wraps at 2^64, out of reach of any run modelled here.
FetchAdd(c) == c + 1

\* A remove that empties the map (not the code's)
RemoveRecordAll(recs, g) == [h \in DOMAIN recs |-> None]

\* A remove that leaves the entry in the map (not the code's)
RemoveRecordKeeps(recs, g) == recs

\* DashMap::remove(&generation)
RemoveRecord(recs, g) == [recs EXCEPT ![g] = None]

\* cancel's answer: Ok(()) iff remove gave Some(record)
CancelReturnsOk(recs, g) == recs[g] # None

\* An insert that stores nothing (not the code's)
InsertRecordNowhere(recs, g, n) == recs

\* DashMap::insert(generation, record)
InsertRecord(recs, g, n) == [recs EXCEPT ![g] = n]

\* A spawned future without the start gate (not the code's)
StartGateOpenAlways(n) == TRUE

\* notify_clone.notified().await at the head of the spawned future: the task
\* goes on only once the permit of notify.notify_one() is there.
StartGateOpen(n) == gate[n]

\* AbortHandle::abort(): a task that has not finished is cancelled at its
\* await point; a finished task is left as it is.
Abort(states, n) ==
    IF states[n] \in {"gated", "running"}
    THEN [states EXCEPT ![n] = "aborted"]
    ELSE states

\* A wrapper that invokes both user callbacks (not the code's)
CallbackWrapperBoth(n, env) ==
    << [sub |-> n, via |-> "map_function", generation |-> env.generation,
        result |-> env.result],
       [sub |-> n, via |-> "err_function", generation |-> env.generation,
        result |-> env.result] >>

\* The callback the facade builds around map_function / err_function: the
\* user callbacks it invokes for an envelope, as log entries.
CallbackWrapper(n, env) ==
    IF env.result.ok
    THEN IF env.result.kind = kind[n]
         THEN << [sub |-> n, via |-> "map_function",
                  generation |-> env.generation, result |-> env.result] >>
         ELSE << >>   \* error!("Unexpected network event"): nothing delivered
    ELSE << [sub |-> n, via |-> "err_function",
             generation |-> env.generation, result |-> env.result] >>

\* The runtime thread is free to poll a spawned task only while the pump,
\* its block_on future, is parked in its select!.
RuntimeFree == pumpPc = "parked"

--------------------------------------------------------------------------
\* Initial state: NetworkImpl::try_new

\* A core that is used without the eframe shell (as network_demo.rs does)
NoShell ==
    /\ lifecycle = "none"
    /\ current_page = "none"
    /\ chat_generation = None
    /\ stream_buffer = << >>
    /\ app_message_rx = << >>
    /\ chat_history = << >>
    /\ captcha_generation = None
    /\ captcha_id = None
    /\ captcha_base64 = None
    /\ captcha_texture = None
    /\ login_generation = None
    /\ login_state = "None"
    /\ outstanding = {}
    /\ streaming = FALSE
    /\ arrived = 0
    /\ clicks = 0
    /\ recent = [captcha |-> None, login |-> None]
    /\ stale = {}

Init ==
    /\ generation = 0
    /\ task_records = [g \in GenVals |-> None]
    /\ cancellation_token = FALSE
    /\ result_q = << >>
    /\ nsub = 0
    /\ kind = [n \in Subs |-> "none"]
    /\ gen = [n \in Subs |-> None]
    /\ st = [n \in Subs |-> "none"]
    /\ gate = [n \in Subs |-> FALSE]
    /\ posted = [n \in Subs |-> << >>]
    /\ shellPc = "idle"
    /\ shellSub = None
    /\ pumpPc = "parked"
    /\ pumpSub = None
    /\ pumpEnv = NoEnv
    /\ cbLog = << >>
    /\ returned = << >>
    /\ cancelOk = {}
    /\ dropped = {}
    /\ panicked = {}
    /\ message_id = 0
    /\ message_seq = [n \in Subs |-> None]
    /\ inner = [n \in Subs |-> "none"]
    /\ message_buffer = {}
    /\ notified = [n \in Subs |-> FALSE]
    /\ to_sender = [n \in Subs |-> << >>]
    /\ acked = {}
    /\ session_record = None
    /\ sender = [n \in Subs |-> "none"]
    /\ receiver = [n \in Subs |-> "none"]
    /\ shutdown = [n \in Subs |-> FALSE]
    /\ dispatcher = [n \in Subs |-> "none"]
    /\ message_rx = [n \in Subs |-> << >>]
    /\ wire_in = [n \in Subs |-> << >>]
    /\ streamLog = << >>
    /\ sent_on = [n \in Subs |-> None]
    /\ late = [n \in Subs |-> None]
    /\ in_flight = {}
    /\ after_connect = [n \in Subs |-> FALSE]
    /\ NoShell

--------------------------------------------------------------------------
\* Shell thread: the facade

\* fetch_captcha / signup / login / connect_chat / send_chat_message up to
\* and including join_set.spawn in create_task.  connect_chat first mints
\* stream_generation from the same counter; send_chat_message first takes
\* its message_id from the message_id counter.
Submit(k) ==
    /\ shellPc = "idle"
    /\ nsub < MaxTasks
    /\ LET afterStream == IF k = "Session" THEN FetchAdd(generation)
                          ELSE generation
       IN /\ gen' = [gen EXCEPT ![nsub] = afterStream]
          /\ generation' = FetchAdd(afterStream)
    /\ kind' = [kind EXCEPT ![nsub] = k]
    /\ st' = [st EXCEPT ![nsub] = "gated"]
    /\ shellSub' = nsub
    /\ nsub' = nsub + 1
    /\ shellPc' = "spawned"
    /\ IF k = "Chat"
       THEN /\ message_seq' = [message_seq EXCEPT ![nsub] = message_id]
            /\ message_id' = FetchAdd(message_id)
       ELSE UNCHANGED <<message_seq, message_id>>
    /\ inner' = [inner EXCEPT ![nsub] = "start"]
    /\ late' = [late EXCEPT
                  ![nsub] = IF /\ k = "Chat"
                               /\ session_record # None
                               /\ shutdown[session_record]
                            THEN session_record
                            ELSE None]
    /\ after_connect' =
         [after_connect EXCEPT
            ![nsub] = /\ k = "Chat"
                      /\ \E i \in DOMAIN cbLog :
                            /\ cbLog[i].via = "map_function"
                            /\ cbLog[i].result =
                                 OkResult("Session", "ChatMetaData")]
    /\ UNCHANGED <<task_records, cancellation_token, result_q, gate, pumpPc,
                   posted, pumpSub, pumpEnv, cbLog, returned, cancelOk,
                   dropped, panicked, chatVars, wsVars, sent_on, in_flight,
                   appVars>>

\* create_task after the spawn: self.task_records.insert(generation, record);
\* notify.notify_one(); Ok(generation)
CreateTaskFinish ==
    /\ shellPc = "spawned"
    /\ task_records' = InsertRecord(task_records, gen[shellSub], shellSub)
    /\ gate' = [gate EXCEPT ![shellSub] = TRUE]
    /\ returned' = Append(returned, gen[shellSub])
    /\ shellPc' = "idle"
    /\ shellSub' = None
    /\ UNCHANGED <<generation, cancellation_token, result_q, nsub, kind, gen,
                   st, posted, pumpPc, pumpSub, pumpEnv, cbLog, cancelOk,
                   dropped>>
    /\ UNCHANGED sessVars

\* cancel: task_records.remove(&generation); with a record its task is
\* aborted and the answer is Ok(()), without one Err("No such task").
Cancel(g) ==
    /\ shellPc = "idle"
    /\ task_records' = RemoveRecord(task_records, g)
    /\ IF CancelReturnsOk(task_records, g)
       THEN /\ st' = Abort(st, task_records[g])
            /\ cancelOk' = cancelOk \cup {g}
       ELSE UNCHANGED <<st, cancelOk>>
    /\ UNCHANGED <<generation, cancellation_token, result_q, nsub, kind, gen,
                   gate, shellPc, shellSub, pumpPc, pumpSub, pumpEnv, cbLog,
                   returned, dropped, posted>>
    /\ UNCHANGED sessVars

\* The core's shutdown: the global cancellation token is tripped.
Shutdown ==
    /\ shellPc = "idle"
    /\ ~cancellation_token
    /\ cancellation_token' = TRUE
    /\ UNCHANGED <<generation, task_records, result_q, nsub, kind, gen, st,
                   gate, shellPc, shellSub, pumpPc, pumpSub, pumpEnv, cbLog,
                   returned, cancelOk, dropped, posted>>
    /\ UNCHANGED sessVars

--------------------------------------------------------------------------
\* Runtime thread: the spawned future of create_task

\* notify_clone.notified().await returns
TaskPassGate(n) ==
    /\ RuntimeFree
    /\ st[n] = "gated"
    /\ StartGateOpen(n)
    /\ st' = [st EXCEPT ![n] = "running"]
    /\ gate' = [gate EXCEPT ![n] = FALSE]
    /\ UNCHANGED <<generation, task_records, cancellation_token, result_q,
                   nsub, kind, gen, shellPc, shellSub, pumpPc, pumpSub,
                   pumpEnv, cbLog, returned, cancelOk, dropped, posted>>
    /\ UNCHANGED sessVars

\* A task that posts r and stays in its select! (not the code's)
PostStaysAlive(n, r) ==
    /\ result_q' = Append(result_q, WithGeneration(gen[n], r))
    /\ st' = st
    /\ posted' = [posted EXCEPT ![n] = Append(@, r)]
    /\ UNCHANGED <<generation, task_records, cancellation_token, nsub, kind,
                   gen, gate, shellPc, shellSub, pumpPc, pumpSub, pumpEnv,
                   cbLog, returned, cancelOk, dropped>>

\* The task posts r for its generation and ends.
Post(n, r) ==
    /\ result_q' = Append(result_q, WithGeneration(gen[n], r))
    /\ st' = [st EXCEPT ![n] = "done"]
    /\ posted' = [posted EXCEPT ![n] = Append(@, r)]
    /\ UNCHANGED <<generation, task_records, cancellation_token, nsub, kind,
                   gen, gate, shellPc, shellSub, pumpPc, pumpSub, pumpEnv,
                   cbLog, returned, cancelOk, dropped>>

\* timeout(timeout, task) gives Ok(e): the inner future completed with e
TaskFinished(n) ==
    /\ RuntimeFree
    /\ st[n] = "running"
    /\ \E v \in Outcomes(kind[n]) : Post(n, OkResult(kind[n], v))
    /\ UNCHANGED sessVars

\* timeout(timeout, task) gives Err(_): the timer elapsed first
TaskTimedOut(n) ==
    /\ RuntimeFree
    /\ st[n] = "running"
    /\ Post(n, TimeoutResult)
    /\ UNCHANGED sessVars

\* select!: cancellation_token.cancelled() is ready
TaskSysCancelled(n) ==
    /\ RuntimeFree
    /\ st[n] = "running"
    /\ cancellation_token
    /\ Post(n, SysCancelledResult)
    /\ UNCHANGED sessVars

--------------------------------------------------------------------------
\* Runtime thread: the result pump, send_result_back

\* A channel that gives the pump the newest result first (not the code's)
PumpRecvNewest ==
    /\ pumpPc = "parked"
    /\ ~cancellation_token
    /\ result_q # << >>
    /\ LET env == result_q[Len(result_q)]
           n == task_records[env.generation]
       IN /\ result_q' = SubSeq(result_q, 1, Len(result_q) - 1)
          /\ IF n # None
             THEN /\ task_records' = RemoveRecord(task_records, env.generation)
                  /\ pumpPc' = "hold"
                  /\ pumpSub' = n
                  /\ pumpEnv' = env
                  /\ UNCHANGED dropped
             ELSE /\ dropped' = dropped \cup {env.generation}
                  /\ UNCHANGED <<task_records, pumpPc, pumpSub, pumpEnv>>
    /\ UNCHANGED <<generation, cancellation_token, nsub, kind, gen, st, gate,
                   shellPc, shellSub, cbLog, returned, cancelOk, posted>>
    /\ UNCHANGED sessVars

\* select! biased: the recv branch is polled only while the token is not
\* tripped.  The envelope is dequeued and its record removed.
PumpRecv ==
    /\ pumpPc = "parked"
    /\ ~cancellation_token
    /\ result_q # << >>
    /\ LET env == Head(result_q)
           n == task_records[env.generation]
       IN /\ result_q' = Tail(result_q)
          /\ IF n # None
             THEN /\ task_records' = RemoveRecord(task_records, env.generation)
                  /\ pumpPc' = "hold"
                  /\ pumpSub' = n
                  /\ pumpEnv' = env
                  /\ UNCHANGED dropped
             ELSE /\ dropped' = dropped \cup {env.generation}
                  /\ UNCHANGED <<task_records, pumpPc, pumpSub, pumpEnv>>
    /\ UNCHANGED <<generation, cancellation_token, nsub, kind, gen, st, gate,
                   shellPc, shellSub, cbLog, returned, cancelOk, posted>>
    /\ UNCHANGED sessVars

\* What the callback of send_chat_message does after the user callback has
\* returned: message_buffer.remove(&message_id).  The other facade
\* callbacks do nothing more.
WrapperEpilogue(buf, n) ==
    IF kind[n] = "Chat" THEN buf \ {message_seq[n]} ELSE buf

\* abort_handle.abort(); catch_unwind(callback(with_generation)), the user
\* callback returning
PumpInvoke ==
    /\ pumpPc = "hold"
    /\ st' = Abort(st, pumpSub)
    /\ cbLog' = cbLog \o CallbackWrapper(pumpSub, pumpEnv)
    /\ message_buffer' = WrapperEpilogue(message_buffer, pumpSub)
    /\ pumpPc' = "parked"
    /\ pumpSub' = None
    /\ pumpEnv' = NoEnv
    /\ UNCHANGED <<generation, task_records, cancellation_token, result_q,
                   nsub, kind, gen, gate, shellPc, shellSub, returned,
                   cancelOk, dropped, posted>>
    /\ UNCHANGED <<panicked, message_id, message_seq, inner, notified,
                   to_sender, acked, wsVars>>
    /\ UNCHANGED histVars

\* A panic that is not caught and ends the task it unwinds (not the code's)
Unwinds(goesOn, ended) == ended

\* std::panic::catch_unwind around a user callback that panics: the panic
\* is logged and the loop that made the call goes on.
CatchUnwind(goesOn, ended) == goesOn

\* ... the user callback panicking: the unwinding leaves the callback at the
\* user's call, catch_unwind catches it and the pump logs it.
PumpInvokePanics ==
    /\ pumpPc = "hold"
    /\ CallbackWrapper(pumpSub, pumpEnv) # << >>
    /\ st' = Abort(st, pumpSub)
    /\ cbLog' = cbLog \o CallbackWrapper(pumpSub, pumpEnv)
    /\ panicked' = panicked \cup {pumpSub}
    /\ pumpPc' = CatchUnwind("parked", "panicked")
    /\ pumpSub' = None
    /\ pumpEnv' = NoEnv
    /\ UNCHANGED <<generation, task_records, cancellation_token, result_q,
                   nsub, kind, gen, gate, shellPc, shellSub, returned,
                   cancelOk, dropped, posted>>
    /\ UNCHANGED <<message_id, message_seq, inner, chatVars, wsVars>>
    /\ UNCHANGED histVars

\* select! biased: cancellation_token.cancelled() is ready, the branch logs
\* result_rx.len()
PumpShutdownBranch ==
    /\ pumpPc \in {"parked", "loop"}
    /\ cancellation_token
    /\ pumpPc' = "shutdown_branch"
    /\ UNCHANGED <<generation, task_records, cancellation_token, result_q,
                   nsub, kind, gen, st, gate, posted, shellPc, shellSub,
                   pumpSub, pumpEnv, cbLog, returned, cancelOk, dropped>>
    /\ UNCHANGED sessVars

\* ... and the loop goes round to the select! again, without having yielded
PumpLoop ==
    /\ pumpPc = "shutdown_branch"
    /\ pumpPc' = "loop"
    /\ UNCHANGED <<generation, task_records, cancellation_token, result_q,
                   nsub, kind, gen, st, gate, posted, shellPc, shellSub,
                   pumpSub, pumpEnv, cbLog, returned, cancelOk, dropped>>
    /\ UNCHANGED sessVars

--------------------------------------------------------------------------
\* The chat session: values

\* ServerToClient
Distribute(m) == [type |-> "Distribute", msg |-> m, message_seq |-> None]

ACK(q) == [type |-> "ACK", msg |-> "", message_seq |-> q]

\* tungstenite Message other than Text and Close (Binary, Ping, Pong, Frame)
OtherFrame == [type |-> "Other", msg |-> "", message_seq |-> None]

RECURSIVE SumLen(_, _)
SumLen(f, S) ==
    IF S = {} THEN 0
    ELSE LET x == CHOOSE y \in S : TRUE
         IN Len(f[x]) + SumLen(f, S \ {x})

\* Frames read from the sockets so far
FramesRead == SumLen(wire_in, Subs)

\* ACK(q) has been read from the wire of some session.
AckOnWire(q) ==
    \E s \in Subs : \E i \in DOMAIN wire_in[s] : wire_in[s][i] = ACK(q)

\* The text frames that decode as ServerToClient and that the server may
\* send next: a chat message, whose content is told apart from the earlier
\* ones' by its number, or an ACK, which can carry any message_seq, also
\* one no send of this core has.
Frames ==
    {Distribute(FramesRead)} \cup {ACK(q) : q \in 0 .. (MaxTasks - 1)}

\* NetworkEvent::Chat(MessageEvent { result })
MessageSent == OkResult("Chat", "MessageSent")

MissingSession == OkResult("Chat", "MessageError::MissingSession")

MessageFallbackError == OkResult("Chat", "MessageError::FallbackError")

\* NetworkEvent::Session(SessionEvent { result })
ChatMetaData == OkResult("Session", "ChatMetaData")

ChatConnFallbackError == OkResult("Session", "ChatConnError::FallbackError")

--------------------------------------------------------------------------
\* Runtime thread: the inner future of connect_chat

\* A lookup that takes whatever notifier is pending (not the code's)
PendingLookupAny(buf, q) == {n \in Subs : message_seq[n] \in buf}

\* An insert that leaves the pending table as it was (not the code's)
InsertNotifierLost(buf, q) == buf

\* message_buffer.insert(message_id, notify.clone())
InsertNotifier(buf, q) == buf \cup {q}

\* message_buffer.remove(&message_seq): the sends whose notifier it gives,
\* that is the send that took message_seq q if its entry is in the table
PendingLookup(buf, q) == {n \in Subs : message_seq[n] = q /\ q \in buf}

\* A slot that is read as holding a session when it is empty (not the
\* code's)
SlotReadSome(slot) == IF slot = None THEN 0 ELSE slot

\* &*session_record.lock().await: the record in the slot
SlotRead(slot) == slot

\* A channel that hands over the newest frame first (not the code's)
EnqueueFront(q, f) == << f >> \o q

\* from_receiver.send(message) on the unbounded channel of the dispatcher
Enqueue(q, f) == Append(q, f)

\* A dispatcher that calls the stream callback twice (not the code's)
StreamCallbackTwice(s, record, f, panics) ==
    << [session |-> s, record |-> record, msg |-> f.msg, panics |-> panics],
       [session |-> s, record |-> record, msg |-> f.msg, panics |-> panics] >>

\* The Distribute branch of send_message_back for frame f: with a record in
\* the slot, its stream callback is invoked once with the chat message; the
\* invocations are given as log entries.
StreamCallback(s, record, f, panics) ==
    IF record # None
    THEN << [session |-> s, record |-> record, msg |-> f.msg,
             panics |-> panics] >>
    ELSE << >>

\* The task of a connect_chat passes the start gate and polls
\* RealWsWorker::try_new, which is pending on the network.
ConnectPassGate(n) ==
    /\ kind[n] = "Session"
    /\ TaskPassGate(n)

\* A handshake that succeeds and sends its event while the slot is still
\* to be written (not the code's)
ConnectSucceedsUnstored(n) ==
    /\ RuntimeFree
    /\ kind[n] = "Session"
    /\ st[n] = "running"
    /\ sender' = [sender EXCEPT ![n] = "running"]
    /\ receiver' = [receiver EXCEPT ![n] = "running"]
    /\ dispatcher' = [dispatcher EXCEPT ![n] = "running"]
    /\ inner' = [inner EXCEPT ![n] = "returned"]
    /\ Post(n, ChatMetaData)
    /\ UNCHANGED <<panicked, message_id, message_seq, chatVars, shutdown,
                   message_rx, wire_in, streamLog, session_record>>
    /\ UNCHANGED histVars

\* RealWsWorker::try_new returns Ok(worker): sender, receiver and watcher are
\* spawned, send_message_back is spawned, the SessionRecord is stored in the
\* slot (replacing what was there), the dispatcher is notified and the
\* task sends Ok(Session(Ok(ChatMetaData))).
ConnectSucceeds(n) ==
    /\ RuntimeFree
    /\ kind[n] = "Session"
    /\ st[n] = "running"
    /\ session_record' = n
    /\ sender' = [sender EXCEPT ![n] = "running"]
    /\ receiver' = [receiver EXCEPT ![n] = "running"]
    /\ dispatcher' = [dispatcher EXCEPT ![n] = "running"]
    /\ inner' = [inner EXCEPT ![n] = "returned"]
    /\ Post(n, ChatMetaData)
    /\ UNCHANGED <<panicked, message_id, message_seq, chatVars, shutdown,
                   message_rx, wire_in, streamLog>>
    /\ UNCHANGED histVars

\* A failed handshake whose request is stored in the slot all the same (not
\* the code's)
ConnectFailsStoring(n) ==
    /\ RuntimeFree
    /\ kind[n] = "Session"
    /\ st[n] = "running"
    /\ session_record' = n
    /\ inner' = [inner EXCEPT ![n] = "returned"]
    /\ Post(n, ChatConnFallbackError)
    /\ UNCHANGED <<panicked, message_id, message_seq, chatVars, sender,
                   receiver, shutdown, dispatcher, message_rx, wire_in,
                   streamLog>>
    /\ UNCHANGED histVars

\* RealWsWorker::try_new returns Err: the task sends
\* Ok(Session(Err(ChatConnError::FallbackError))).
ConnectFails(n) ==
    /\ RuntimeFree
    /\ kind[n] = "Session"
    /\ st[n] = "running"
    /\ inner' = [inner EXCEPT ![n] = "returned"]
    /\ Post(n, ChatConnFallbackError)
    /\ UNCHANGED <<panicked, message_id, message_seq, chatVars, wsVars>>
    /\ UNCHANGED histVars

\* The timer of a connect_chat elapses while try_new is pending.
ConnectTimedOut(n) ==
    /\ kind[n] = "Session"
    /\ TaskTimedOut(n)

--------------------------------------------------------------------------
\* Runtime thread: the inner future of send_chat_message

\* First poll of the task of a send_chat_message: the start gate is passed
\* and the inner future runs to its first pending await or to its end.  The
\* lock of the slot is never held across an await, so it is free.
ChatStart(n) ==
    /\ RuntimeFree
    /\ kind[n] = "Chat"
    /\ st[n] = "gated"
    /\ StartGateOpen(n)
    /\ gate' = [gate EXCEPT ![n] = FALSE]
    /\ LET s == SlotRead(session_record)
           q == message_seq[n]
       IN IF s = None
          THEN \* return Chat(Err(MissingSession))
               /\ result_q' = Append(result_q,
                                     WithGeneration(gen[n], MissingSession))
               /\ posted' = [posted EXCEPT ![n] = Append(@, MissingSession)]
               /\ st' = [st EXCEPT ![n] = "done"]
               /\ inner' = [inner EXCEPT ![n] = "returned"]
               /\ UNCHANGED <<message_buffer, to_sender, sent_on>>
          ELSE /\ message_buffer' = InsertNotifier(message_buffer, q)
               /\ IF sender[s] = "ended"
                  THEN \* to_sender.send fails: the sender dropped from_app
                       /\ result_q' =
                            Append(result_q,
                                   WithGeneration(gen[n],
                                                  MessageFallbackError))
                       /\ posted' = [posted EXCEPT
                                       ![n] = Append(@, MessageFallbackError)]
                       /\ st' = [st EXCEPT ![n] = "done"]
                       /\ inner' = [inner EXCEPT ![n] = "returned"]
                       /\ UNCHANGED <<to_sender, sent_on>>
                  ELSE \* the frame is queued; notify.notified().await
                       /\ to_sender' = [to_sender EXCEPT ![s] = Append(@, q)]
                       /\ sent_on' = [sent_on EXCEPT ![n] = s]
                       /\ st' = [st EXCEPT ![n] = "running"]
                       /\ inner' = [inner EXCEPT ![n] = "waiting"]
                       /\ UNCHANGED <<result_q, posted>>
    /\ UNCHANGED <<generation, task_records, cancellation_token, nsub, kind,
                   gen, shellPc, shellSub, pumpPc, pumpSub, pumpEnv, cbLog,
                   returned, cancelOk, dropped>>
    /\ UNCHANGED <<panicked, message_id, message_seq, notified, acked,
                   wsVars, late, in_flight, after_connect, appVars>>

\* notify.notified().await returns: message_buffer.remove(&message_id) and
\* the task sends Ok(Chat(Ok(MessageSent))).
ChatNotified(n) ==
    /\ RuntimeFree
    /\ kind[n] = "Chat"
    /\ st[n] = "running"
    /\ inner[n] = "waiting"
    /\ notified[n]
    /\ notified' = [notified EXCEPT ![n] = FALSE]
    /\ message_buffer' = message_buffer \ {message_seq[n]}
    /\ inner' = [inner EXCEPT ![n] = "returned"]
    /\ Post(n, MessageSent)
    /\ UNCHANGED <<panicked, message_id, message_seq, to_sender, acked,
                   wsVars>>
    /\ UNCHANGED histVars

\* The timer of a send elapses; timeout() polls the inner future first, so
\* Err(Timeout) is sent only while the notifier holds no permit.
ChatTimedOut(n) ==
    /\ kind[n] = "Chat"
    /\ inner[n] = "waiting"
    /\ ~notified[n]
    /\ TaskTimedOut(n)

--------------------------------------------------------------------------
\* Runtime thread: sender, receiver and watcher of a session (worker.rs)

\* sender: a frame from from_app is written to the socket
SenderWrite(s) ==
    /\ RuntimeFree
    /\ sender[s] = "running"
    /\ to_sender[s] # << >>
    /\ to_sender' = [to_sender EXCEPT ![s] = Tail(@)]
    /\ UNCHANGED <<coreVars, panicked, message_id, message_seq, inner,
                   message_buffer, notified, acked, wsVars>>
    /\ UNCHANGED histVars

\* sender: shutdown.changed() => break; from_app is dropped with what it holds
SenderStops(s) ==
    /\ RuntimeFree
    /\ sender[s] = "running"
    /\ shutdown[s]
    /\ sender' = [sender EXCEPT ![s] = "ended"]
    /\ to_sender' = [to_sender EXCEPT ![s] = << >>]
    /\ UNCHANGED <<coreVars, panicked, message_id, message_seq, inner,
                   message_buffer, notified, acked, session_record, receiver,
                   shutdown, dispatcher, message_rx, wire_in, streamLog>>
    /\ UNCHANGED histVars

\* What a server that keeps to the protocol may acknowledge on session s:
\* a message_seq whose Send frame the sender of s has written to the socket.
Acknowledgeable(s, q) ==
    \E n \in Subs :
        /\ sent_on[n] = s
        /\ message_seq[n] = q
        /\ \A i \in DOMAIN to_sender[s] : to_sender[s][i] # q

\* receiver: a text frame that decodes is forwarded to the dispatcher with
\* from_receiver.send, whose failure (the dispatcher is gone) is ignored
ReceiverFrame(s, f) ==
    /\ RuntimeFree
    /\ receiver[s] = "running"
    /\ FramesRead < MaxFrames
    /\ wire_in' = [wire_in EXCEPT ![s] = Append(@, f)]
    /\ message_rx' = IF dispatcher[s] = "running"
                     THEN [message_rx EXCEPT ![s] = Enqueue(@, f)]
                     ELSE message_rx
    /\ UNCHANGED <<coreVars, panicked, message_id, message_seq, inner,
                   chatVars, session_record, sender, receiver, shutdown,
                   dispatcher, streamLog>>
    /\ UNCHANGED histVars

\* A receiver that leaves its loop on a frame that is neither text nor Close
\* (not the code's)
ReceiverSkipBreaks(s) ==
    /\ RuntimeFree
    /\ receiver[s] = "running"
    /\ FramesRead < MaxFrames
    /\ wire_in' = [wire_in EXCEPT ![s] = Append(@, OtherFrame)]
    /\ receiver' = [receiver EXCEPT ![s] = "ended"]
    /\ UNCHANGED <<coreVars, panicked, message_id, message_seq, inner,
                   chatVars, session_record, sender, shutdown, dispatcher,
                   message_rx, streamLog>>
    /\ UNCHANGED histVars

\* receiver: a frame that is neither text nor Close (binary, ping, pong) is
\* read and skipped: continue
ReceiverSkip(s) ==
    /\ RuntimeFree
    /\ receiver[s] = "running"
    /\ FramesRead < MaxFrames
    /\ wire_in' = [wire_in EXCEPT ![s] = Append(@, OtherFrame)]
    /\ UNCHANGED <<coreVars, panicked, message_id, message_seq, inner,
                   chatVars, session_record, sender, receiver, shutdown,
                   dispatcher, message_rx, streamLog>>
    /\ UNCHANGED histVars

\* A receiver that on its way out wakes the sends that wait on its session
\* (not the code's)
ReceiverCloseNotifying(s) ==
    /\ RuntimeFree
    /\ receiver[s] = "running"
    /\ receiver' = [receiver EXCEPT ![s] = "ended"]
    /\ notified' = [n \in Subs |->
                      notified[n] \/ (sent_on[n] = s /\ inner[n] = "waiting")]
    /\ in_flight' = in_flight \cup
                      {n \in Subs : /\ sent_on[n] = s
                                    /\ st[n] = "running"
                                    /\ inner[n] = "waiting"
                                    /\ ~AckOnWire(message_seq[n])}
    /\ UNCHANGED <<coreVars, panicked, message_id, message_seq, inner,
                   message_buffer, to_sender, acked, session_record, sender,
                   shutdown, dispatcher, message_rx, wire_in, streamLog,
                   sent_on, late, after_connect, appVars>>

\* receiver: a Close frame, a transport error or a text frame that does not
\* decode => break
ReceiverClose(s) ==
    /\ RuntimeFree
    /\ receiver[s] = "running"
    /\ receiver' = [receiver EXCEPT ![s] = "ended"]
    /\ in_flight' = in_flight \cup
                      {n \in Subs : /\ sent_on[n] = s
                                    /\ st[n] = "running"
                                    /\ inner[n] = "waiting"
                                    /\ ~AckOnWire(message_seq[n])}
    /\ UNCHANGED <<coreVars, panicked, message_id, message_seq, inner,
                   chatVars, session_record, sender, shutdown, dispatcher,
                   message_rx, wire_in, streamLog, sent_on, late,
                   after_connect, appVars>>

\* (The receiver's other branch, shutdown.changed() => break, is taken only
\* when the sender has ended first; the sender ends on nothing but that
\* same signal, so the branch is never taken.)

\* A watcher that awaits both handles before it trips the signal (not the
\* code's)
WatcherTripBoth(s) ==
    /\ RuntimeFree
    /\ ~shutdown[s]
    /\ sender[s] = "ended" /\ receiver[s] = "ended"
    /\ shutdown' = [shutdown EXCEPT ![s] = TRUE]
    /\ UNCHANGED <<coreVars, panicked, message_id, message_seq, inner,
                   chatVars, session_record, sender, receiver, dispatcher,
                   message_rx, wire_in, streamLog>>
    /\ UNCHANGED histVars

\* A watcher that trips the signal while both sub-tasks are at work (not the
\* code's)
WatcherTripEarly(s) ==
    /\ RuntimeFree
    /\ ~shutdown[s]
    /\ sender[s] # "none"
    /\ shutdown' = [shutdown EXCEPT ![s] = TRUE]
    /\ UNCHANGED <<coreVars, panicked, message_id, message_seq, inner,
                   chatVars, session_record, sender, receiver, dispatcher,
                   message_rx, wire_in, streamLog>>
    /\ UNCHANGED histVars

\* watcher: one of the two handles completed; shutdown.send(true)
WatcherTrip(s) ==
    /\ RuntimeFree
    /\ ~shutdown[s]
    /\ sender[s] = "ended" \/ receiver[s] = "ended"
    /\ shutdown' = [shutdown EXCEPT ![s] = TRUE]
    /\ UNCHANGED <<coreVars, panicked, message_id, message_seq, inner,
                   chatVars, session_record, sender, receiver, dispatcher,
                   message_rx, wire_in, streamLog>>
    /\ UNCHANGED histVars

--------------------------------------------------------------------------
\* Runtime thread: the inbound dispatcher, send_message_back

\* One iteration on a Distribute frame: the stream callback of the record in
\* the slot is invoked under catch_unwind; it returns or panics.
DispatchDistribute(s, panics) ==
    /\ RuntimeFree
    /\ ~cancellation_token
    /\ dispatcher[s] = "running"
    /\ message_rx[s] # << >>
    /\ Head(message_rx[s]).type = "Distribute"
    /\ message_rx' = [message_rx EXCEPT ![s] = Tail(@)]
    /\ streamLog' = streamLog \o StreamCallback(s, SlotRead(session_record),
                                                Head(message_rx[s]), panics)
    /\ dispatcher' = IF panics
                     THEN [dispatcher EXCEPT
                             ![s] = CatchUnwind("running", "panicked")]
                     ELSE dispatcher
    /\ UNCHANGED <<coreVars, panicked, message_id, message_seq, inner,
                   chatVars, session_record, sender, receiver, shutdown,
                   wire_in>>
    /\ UNCHANGED histVars

\* One iteration on an ACK frame: with a notifier in the pending table it is
\* removed and notified; without one the loop is left (break), message_rx
\* is dropped with what it holds.
DispatchACK(s) ==
    /\ RuntimeFree
    /\ ~cancellation_token
    /\ dispatcher[s] = "running"
    /\ message_rx[s] # << >>
    /\ Head(message_rx[s]).type = "ACK"
    /\ LET q == Head(message_rx[s]).message_seq
           woken == PendingLookup(message_buffer, q)
       IN IF woken # {}
          THEN /\ message_buffer' =
                    message_buffer \ {message_seq[n] : n \in woken}
               /\ notified' = [n \in Subs |-> notified[n] \/ n \in woken]
               /\ acked' = acked \cup {q}
               /\ message_rx' = [message_rx EXCEPT ![s] = Tail(@)]
               /\ UNCHANGED dispatcher
          ELSE /\ dispatcher' = [dispatcher EXCEPT ![s] = "broke"]
               /\ message_rx' = [message_rx EXCEPT ![s] = << >>]
               /\ UNCHANGED <<message_buffer, notified, acked>>
    /\ UNCHANGED <<coreVars, panicked, message_id, message_seq, inner,
                   to_sender, session_record, sender, receiver, shutdown,
                   wire_in, streamLog>>
    /\ UNCHANGED histVars

\* message_rx.recv() gives None: the receiver, which owns the only sender of
\* the channel, has ended and the channel is drained => break
DispatcherClosed(s) ==
    /\ RuntimeFree
    /\ ~cancellation_token
    /\ dispatcher[s] = "running"
    /\ receiver[s] = "ended"
    /\ message_rx[s] = << >>
    /\ dispatcher' = [dispatcher EXCEPT ![s] = "closed"]
    /\ UNCHANGED <<coreVars, panicked, message_id, message_seq, inner,
                   chatVars, session_record, sender, receiver, shutdown,
                   message_rx, wire_in, streamLog>>
    /\ UNCHANGED histVars

--------------------------------------------------------------------------
\* Specifications

\* The program as the sources have it: nothing in them trips the token.
Next ==
    \/ \E k \in Kinds : Submit(k)
    \/ CreateTaskFinish
    \/ \E g \in 0 .. generation : Cancel(g)
    \/ \E n \in Subs : TaskPassGate(n)
    \/ \E n \in Subs : TaskFinished(n)
    \/ \E n \in Subs : TaskTimedOut(n)
    \/ PumpRecv
    \/ PumpInvoke

\* ... and with the core's shutdown tripping the token at any moment.
NextShutdown ==
    \/ Next
    \/ Shutdown
    \/ \E n \in Subs : TaskSysCancelled(n)
    \/ PumpShutdownBranch
    \/ PumpLoop

Spec == Init /\ [][Next]_vars

ShutdownSpec == Init /\ [][NextShutdown]_vars

\* Scheduling: a facade call that has spawned its task goes on to return;
\* the runtime polls every future that is ready; a timer that is armed
\* elapses.  Whether an inner future ever completes is the environment's.
Fairness ==
    /\ WF_vars(CreateTaskFinish)
    /\ \A n \in Subs : WF_vars(TaskPassGate(n))
    /\ \A n \in Subs : WF_vars(TaskTimedOut(n))
    /\ WF_vars(PumpRecv)
    /\ WF_vars(PumpInvoke)

FairSpec == Spec /\ Fairness

ShutdownFairness ==
    /\ Fairness
    /\ \A n \in Subs : WF_vars(TaskSysCancelled(n))
    /\ WF_vars(PumpShutdownBranch)
    /\ WF_vars(PumpLoop)

FairShutdownSpec == ShutdownSpec /\ ShutdownFairness

\* The facade operations of the chat session
SessionKinds == {"Session", "Chat"}

\* The program with its chat session: connect_chat and send_chat_message
\* with their inner futures, the session's sub-tasks, the server's frames,
\* and user callbacks that may panic.
NextSession ==
    \/ \E k \in SessionKinds : Submit(k)
    \/ CreateTaskFinish
    \/ \E g \in 0 .. generation : Cancel(g)
    \/ \E n \in Subs : ConnectPassGate(n)
    \/ \E n \in Subs : ConnectSucceeds(n)
    \/ \E n \in Subs : ConnectFails(n)
    \/ \E n \in Subs : ConnectTimedOut(n)
    \/ \E n \in Subs : ChatStart(n)
    \/ \E n \in Subs : ChatNotified(n)
    \/ \E n \in Subs : ChatTimedOut(n)
    \/ \E s \in Subs : SenderWrite(s)
    \/ \E s \in Subs : SenderStops(s)
    \/ \E s \in Subs : \E f \in Frames : ReceiverFrame(s, f)
    \/ \E s \in Subs : ReceiverClose(s)
    \/ \E s \in Subs : WatcherTrip(s)
    \/ \E s \in Subs : \E p \in BOOLEAN : DispatchDistribute(s, p)
    \/ \E s \in Subs : DispatchACK(s)
    \/ \E s \in Subs : DispatcherClosed(s)
    \/ PumpRecv
    \/ PumpInvoke
    \/ PumpInvokePanics

SessionSpec == Init /\ [][NextSession]_vars

\* Scheduling of the runtime thread for the session: the pump and the
\* dispatchers are polled whenever they are ready.
SessionFairness ==
    /\ WF_vars(PumpRecv)
    /\ WF_vars(PumpInvoke \/ PumpInvokePanics)
    /\ \A s \in Subs :
         WF_vars(\/ DispatchDistribute(s, TRUE)
                 \/ DispatchDistribute(s, FALSE)
                 \/ DispatchACK(s))

FairSessionSpec == SessionSpec /\ SessionFairness

\* The core with a session in the slot: the state after one connect_chat
\* has succeeded and its request is complete.  That request is not counted
\* among the submissions; its session has the index 0, the two generations
\* the call minted are used up, and the logs start empty.
SendInit ==
    /\ generation = 2
    /\ task_records = [g \in GenVals |-> None]
    /\ cancellation_token = FALSE
    /\ result_q = << >>
    /\ nsub = 0
    /\ kind = [n \in Subs |-> "none"]
    /\ gen = [n \in Subs |-> None]
    /\ st = [n \in Subs |-> "none"]
    /\ gate = [n \in Subs |-> FALSE]
    /\ posted = [n \in Subs |-> << >>]
    /\ shellPc = "idle"
    /\ shellSub = None
    /\ pumpPc = "parked"
    /\ pumpSub = None
    /\ pumpEnv = NoEnv
    /\ cbLog = << >>
    /\ returned = << >>
    /\ cancelOk = {}
    /\ dropped = {}
    /\ panicked = {}
    /\ message_id = 0
    /\ message_seq = [n \in Subs |-> None]
    /\ inner = [n \in Subs |-> "none"]
    /\ message_buffer = {}
    /\ notified = [n \in Subs |-> FALSE]
    /\ to_sender = [n \in Subs |-> << >>]
    /\ acked = {}
    /\ session_record = 0
    /\ sender = [n \in Subs |-> IF n = 0 THEN "running" ELSE "none"]
    /\ receiver = [n \in Subs |-> IF n = 0 THEN "running" ELSE "none"]
    /\ shutdown = [n \in Subs |-> FALSE]
    /\ dispatcher = [n \in Subs |-> IF n = 0 THEN "running" ELSE "none"]
    /\ message_rx = [n \in Subs |-> << >>]
    /\ wire_in = [n \in Subs |-> << >>]
    /\ streamLog = << >>
    /\ sent_on = [n \in Subs |-> None]
    /\ late = [n \in Subs |-> None]
    /\ in_flight = {}
    /\ after_connect = [n \in Subs |-> FALSE]
    /\ NoShell

\* The sends of a core and the life of the session they are made on.
NextSend ==
    \/ Submit("Chat")
    \/ CreateTaskFinish
    \/ \E g \in 0 .. generation : Cancel(g)
    \/ \E n \in Subs : ChatStart(n)
    \/ \E n \in Subs : ChatNotified(n)
    \/ \E n \in Subs : ChatTimedOut(n)
    \/ \E s \in Subs : SenderWrite(s)
    \/ \E s \in Subs : SenderStops(s)
    \/ \E s \in Subs : \E f \in Frames : ReceiverFrame(s, f)
    \/ \E s \in Subs : ReceiverSkip(s)
    \/ \E s \in Subs : ReceiverClose(s)
    \/ \E s \in Subs : WatcherTrip(s)
    \/ \E s \in Subs : \E p \in BOOLEAN : DispatchDistribute(s, p)
    \/ \E s \in Subs : DispatchACK(s)
    \/ \E s \in Subs : DispatcherClosed(s)
    \/ PumpRecv
    \/ PumpInvoke
    \/ PumpInvokePanics

SendSpec == SendInit /\ [][NextSend]_vars

\* The program with its chat session and a server that keeps to the
\* protocol: it sends chat messages at will, and ACK frames, late or
\* repeated, only for Send frames it got on that socket.
NextCompliant ==
    \/ \E k \in SessionKinds : Submit(k)
    \/ CreateTaskFinish
    \/ \E g \in 0 .. generation : Cancel(g)
    \/ \E n \in Subs : ConnectPassGate(n)
    \/ \E n \in Subs : ConnectSucceeds(n)
    \/ \E n \in Subs : ConnectFails(n)
    \/ \E n \in Subs : ConnectTimedOut(n)
    \/ \E n \in Subs : ChatStart(n)
    \/ \E n \in Subs : ChatNotified(n)
    \/ \E n \in Subs : ChatTimedOut(n)
    \/ \E s \in Subs : SenderWrite(s)
    \/ \E s \in Subs : SenderStops(s)
    \/ \E s \in Subs : \E f \in Frames :
          /\ f.type = "ACK" => Acknowledgeable(s, f.message_seq)
          /\ ReceiverFrame(s, f)
    \/ \E s \in Subs : ReceiverSkip(s)
    \/ \E s \in Subs : ReceiverClose(s)
    \/ \E s \in Subs : WatcherTrip(s)
    \/ \E s \in Subs : \E p \in BOOLEAN : DispatchDistribute(s, p)
    \/ \E s \in Subs : DispatchACK(s)
    \/ \E s \in Subs : DispatcherClosed(s)
    \/ PumpRecv
    \/ PumpInvoke
    \/ PumpInvokePanics

CompliantSpec == Init /\ [][NextCompliant]_vars

\* Scheduling of the runtime thread for the sends: a facade call goes on to
\* return, every task that is ready is polled, a timer that is armed
\* elapses.  What the server sends and when the socket closes is the
\* environment's.
SendFairness ==
    /\ SessionFairness
    /\ WF_vars(CreateTaskFinish)
    /\ \A n \in Subs : WF_vars(ChatStart(n))
    /\ \A n \in Subs : WF_vars(ChatNotified(n))
    /\ \A n \in Subs : WF_vars(ChatTimedOut(n))
    /\ \A s \in Subs : WF_vars(SenderStops(s))
    /\ \A s \in Subs : WF_vars(WatcherTrip(s))
    /\ \A s \in Subs : WF_vars(DispatcherClosed(s))

FairSendSpec == SendSpec /\ SendFairness

--------------------------------------------------------------------------
\* Notions the properties are stated in

Range(s) == {s[i] : i \in DOMAIN s}

\* The callback invocations made on behalf of submission n / of the
\* submissions registered under generation g.
Invocations(n) == Cardinality({i \in DOMAIN cbLog : cbLog[i].sub = n})

InvocationsOfGen(g) ==
    Cardinality({i \in DOMAIN cbLog : gen[cbLog[i].sub] = g})

Submitted(n) == n < nsub

\* create_task has inserted the record of submission n.
RecordInserted(n) == Submitted(n) /\ ~(shellPc = "spawned" /\ shellSub = n)

\* The pump has removed g's record and is about to invoke its callback.
PumpHolds(g) == pumpPc = "hold" /\ pumpEnv.generation = g

Delivered(n, via, r) ==
    \E i \in DOMAIN cbLog :
        cbLog[i] = [sub |-> n, via |-> via, generation |-> gen[n],
                    result |-> r]

\* The inner future of submission n completed: its task sent Ok(event).
InnerCompleted(n) == \E i \in DOMAIN posted[n] : posted[n][i].ok

--------------------------------------------------------------------------
\* C1  Cancel race: once cancel(g) has returned Ok, neither the success nor
\* the error callback registered for g is invoked, also when g's task had
\* already posted its result and the pump had not yet dequeued it.
C1_CancelRace == \A g \in cancelOk : InvocationsOfGen(g) = 0

\* C1 witness: cancel(g) returned Ok while g's result sits in the channel.
C1_Witness ==
    \E g \in cancelOk : \E i \in DOMAIN result_q : result_q[i].generation = g

\* C2  No callback is invoked more than once: for every generation the
\* invocations of its success callback plus those of its error callback
\* number at most one, through completion, timeout, cancel and shutdown.
C2_AtMostOnce == \A g \in GenVals : InvocationsOfGen(g) <= 1

\* C2 witness: one submission got its success callback, another its error
\* callback, after the token was tripped.
C2_Witness ==
    /\ cancellation_token
    /\ \E i, j \in DOMAIN cbLog :
         /\ cbLog[i].via = "map_function"
         /\ cbLog[j].via = "err_function"

\* C3  Callback exactly once: every submission whose record cancel never
\* removes eventually has exactly one invocation of its success or error
\* callback; never more than one, and none when cancel removed the record.
C3_ExactlyOnce ==
    /\ \A n \in Subs :
         Submitted(n) ~> (Invocations(n) = 1 \/ gen[n] \in cancelOk)
    /\ [](\A n \in Subs :
            /\ Invocations(n) <= 1
            /\ (Submitted(n) /\ gen[n] \in cancelOk) => Invocations(n) = 0)

\* C3 witness: one submission had its callback invoked once, another was
\* cancelled and had none.
C3_Witness ==
    \E m, n \in Subs :
        /\ Submitted(m) /\ Submitted(n)
        /\ Invocations(m) = 1
        /\ gen[n] \in cancelOk /\ Invocations(n) = 0

\* C4  Start gate: no result tagged with a generation is in the result
\* channel before the record of that generation was inserted, and the pump
\* finds the record absent only for a generation that cancel removed.
C4_StartGate ==
    /\ \A i \in DOMAIN result_q :
         \E n \in Subs : /\ gen[n] = result_q[i].generation
                         /\ RecordInserted(n)
    /\ \A n \in Subs : posted[n] # << >> => RecordInserted(n)
    /\ dropped \subseteq cancelOk

\* C4 witness: a task is spawned and the runtime, which is at work on an
\* earlier task's result, is free to poll it while create_task has not
\* inserted its record yet.
C4_Witness ==
    /\ shellPc = "spawned"
    /\ st[shellSub] = "gated"
    /\ RuntimeFree
    /\ task_records[gen[shellSub]] = None
    /\ result_q # << >>

\* C5  Generation uniqueness: the generations the facade returns are
\* strictly increasing in submission order, hence pairwise distinct and
\* never returned again; no two submissions' records share a generation.
C5_GenerationUnique ==
    /\ \A i, j \in DOMAIN returned : i < j => returned[i] < returned[j]
    /\ \A m, n \in Subs : (m < n /\ Submitted(n)) => gen[m] < gen[n]
    /\ \A g \in GenVals : task_records[g] # None => gen[task_records[g]] = g

\* C5 witness: a second generation is returned after the first one's task
\* completed or was cancelled.
C5_Witness ==
    /\ Len(returned) >= 2
    /\ returned[1] \in cancelOk \/ InvocationsOfGen(returned[1]) = 1

\* C6 as claimed: every generation minted from the counter has a record from
\* the end of the submitting call until its callback is invoked or cancel
\* removes it; no minted generation is without a record throughout.
C6_EveryMintedGeneration ==
    shellPc = "idle" =>
        \A g \in 0 .. (generation - 1) :
            \/ task_records[g] # None
            \/ PumpHolds(g)
            \/ InvocationsOfGen(g) = 1
            \/ g \in cancelOk

\* C6 as amended: every generation a facade call RETURNED has a record from
\* the end of that call until exactly one of: the pump removes it to invoke
\* the callback, or cancel removes it.  (stream_generation, which
\* connect_chat mints besides, never has one.)
C6_RegistryMembership ==
    \A n \in Subs :
        (Submitted(n) /\ RecordInserted(n)) =>
            LET g == gen[n]
                has == task_records[g] = n
                fired == (pumpPc = "hold" /\ pumpSub = n) \/ Invocations(n) = 1
                cancelled == g \in cancelOk
            IN /\ has \/ fired \/ cancelled
               /\ ~(has /\ fired) /\ ~(has /\ cancelled)
               /\ ~(fired /\ cancelled)

\* C6 witness: a connect_chat has returned and its record is in the registry.
C6_Witness ==
    \E n \in Subs :
        /\ kind[n] = "Session"
        /\ shellPc = "idle"
        /\ task_records[gen[n]] = n

\* C7  Timeout: a submission whose inner future never completes and which
\* is not cancelled eventually has Err(Timeout) delivered to its error
\* callback under its own generation; then its success callback is never
\* invoked and its record is gone.
C7_Timeout ==
    /\ \A n \in Subs :
         Submitted(n) ~> \/ Delivered(n, "err_function", ErrResult("Timeout"))
                         \/ InnerCompleted(n)
                         \/ gen[n] \in cancelOk
    /\ [](\A n \in Subs :
            Delivered(n, "err_function", ErrResult("Timeout")) =>
                /\ Invocations(n) = 1
                /\ task_records[gen[n]] # n)

\* C7 witness: Err(Timeout) was delivered to a submission's error callback.
C7_Witness ==
    \E n \in Subs : Delivered(n, "err_function", ErrResult("Timeout"))

\* C8 as claimed: whenever cancel(g) answers not_found, the callback of g has
\* been invoked or the pump has removed g's record to invoke it.
C8_NotFoundMeansFired ==
    \A g \in 0 .. generation :
        (shellPc = "idle" /\ ~CancelReturnsOk(task_records, g)) =>
            (InvocationsOfGen(g) >= 1 \/ PumpHolds(g))

\* C8 as amended: whenever cancel(g) answers not_found for a generation g
\* that a facade call returned and that no earlier cancel removed, the
\* callback of g has been invoked or the pump has removed g's record to
\* invoke it.
C8_CancelNotFound ==
    \A g \in Range(returned) \ cancelOk :
        (shellPc = "idle" /\ ~CancelReturnsOk(task_records, g)) =>
            (InvocationsOfGen(g) = 1 \/ PumpHolds(g))

\* C8 witness: cancel(g) would answer not_found while the pump holds g's
\* record and has not invoked the callback yet.
C8_Witness ==
    \E g \in Range(returned) \ cancelOk :
        /\ shellPc = "idle"
        /\ ~CancelReturnsOk(task_records, g)
        /\ PumpHolds(g)
        /\ InvocationsOfGen(g) = 0

\* C9  Idempotent cancel: after a cancel(g) that returned Ok, every further
\* cancel(g) answers not_found and leaves the registry as it is.
C9_IdempotentCancel ==
    \A g \in cancelOk :
        /\ ~CancelReturnsOk(task_records, g)
        /\ RemoveRecord(task_records, g) = task_records

\* C9 witness: cancel(g) has returned Ok, the shell is free to call
\* cancel(g) again, and other records are in the registry.
C9_Witness ==
    \E g \in cancelOk :
        /\ shellPc = "idle"
        /\ \E h \in GenVals : h # g /\ task_records[h] # None

\* C10 as claimed: once the token is tripped, every task still awaiting its
\* inner future posts a result (Err(SysCancelled), unless its inner future
\* or its timer was ready at the same poll), and a posted Err(SysCancelled)
\* is eventually delivered to the task's error callback.
C10_SystemCancellation ==
    /\ \A n \in Subs :
         (cancellation_token /\ st[n] = "running")
             ~> (posted[n] # << >> \/ gen[n] \in cancelOk)
    /\ \A n \in Subs :
         (posted[n] = << SysCancelledResult >>)
             ~> \/ Delivered(n, "err_function", SysCancelledResult)
                \/ gen[n] \in cancelOk

--------------------------------------------------------------------------
\* Notions the session properties are stated in

\* Session s has been established: its sub-tasks were spawned.
Established(s) == sender[s] # "none"

\* The WebSocket of session s has closed: its receiver or sender has ended.
Closed(s) == sender[s] = "ended" \/ receiver[s] = "ended"

\* Session s counts as live: it is established and some sub-task of it, or
\* its dispatcher, is still running.
LiveSession(s) ==
    \/ sender[s] = "running"
    \/ receiver[s] = "running"
    \/ dispatcher[s] = "running"

\* The task of submission n sent result r.
Posted(n, r) == \E i \in DOMAIN posted[n] : posted[n][i] = r

\* The Distribute messages read from the wire of session s, in order, and
\* those given to the stream callback by the dispatcher of s, in order.
RECURSIVE SelectMsgs(_)
SelectMsgs(frames) ==
    IF frames = << >> THEN << >>
    ELSE IF Head(frames).type = "Distribute"
         THEN << Head(frames).msg >> \o SelectMsgs(Tail(frames))
         ELSE SelectMsgs(Tail(frames))

RECURSIVE StreamMsgs(_, _)
StreamMsgs(log, s) ==
    IF log = << >> THEN << >>
    ELSE IF Head(log).session = s
         THEN << Head(log).msg >> \o StreamMsgs(Tail(log), s)
         ELSE StreamMsgs(Tail(log), s)

\* Sequence a is the beginning of sequence b.
IsPrefix(a, b) ==
    /\ Len(a) <= Len(b)
    /\ \A i \in DOMAIN a : a[i] = b[i]

--------------------------------------------------------------------------
\* C11  ACK correlation: a send completes with MessageSent, and its notifier
\* is notified, only after the dispatcher has processed an ACK frame read
\* from the wire that carries exactly the send's message_seq; an ACK with
\* another message_seq does not wake it.
C11_AckCorrelation ==
    \A n \in Subs :
        (kind[n] = "Chat" /\ (notified[n] \/ Posted(n, MessageSent))) =>
            /\ message_seq[n] \in acked
            /\ AckOnWire(message_seq[n])

\* C11 witness: a send completed with MessageSent after an ACK with another
\* message_seq had been read from the wire as well.
C11_Witness ==
    \E n \in Subs :
        /\ kind[n] = "Chat"
        /\ Posted(n, MessageSent)
        /\ \E q \in 0 .. (MaxTasks - 1) :
             q # message_seq[n] /\ AckOnWire(q)

\* C12  Missing session: on a core whose session slot is empty (no
\* connect_chat has succeeded), a send_chat_message inserts nothing in the
\* pending table, queues no frame, never waits for an ACK or for its timer,
\* sends Chat(Err(MissingSession)) as its only result, and that result is
\* given to the success callback.
C12_MissingSession ==
    session_record = None =>
        /\ message_buffer = {}
        /\ \A s \in Subs : to_sender[s] = << >>
        /\ \A n \in Subs :
             kind[n] = "Chat" =>
                 /\ inner[n] # "waiting"
                 /\ st[n] # "running"
                 /\ posted[n] \in {<< >>, << MissingSession >>}
                 /\ \A i \in DOMAIN cbLog :
                      cbLog[i].sub = n =>
                          /\ cbLog[i].via = "map_function"
                          /\ cbLog[i].result = MissingSession

\* C12 witness: a connect_chat has failed, the slot is empty, and a send
\* submitted after it got MissingSession through its success callback.
C12_Witness ==
    /\ session_record = None
    /\ \E m, n \in Subs :
         /\ m < n
         /\ Posted(m, ChatConnFallbackError)
         /\ Delivered(n, "map_function", MissingSession)

\* C13 as claimed: once the WebSocket of a session has closed (its receiver,
\* its sender and its dispatcher have all ended), the SessionRecord of that
\* session is no longer in the slot, so that a send finds the slot empty.
C13_SessionRecordLifecycle ==
    \A s \in Subs :
        (/\ sender[s] = "ended"
         /\ receiver[s] = "ended"
         /\ dispatcher[s] \in {"broke", "closed"}) => session_record # s

\* C14 as claimed: an ACK without an entry in the pending table is
\* discarded and the dispatcher keeps running: while the receiver of a
\* session forwards frames, the dispatcher of the session is there to
\* process them.
C14_LateAckDiscarded ==
    \A s \in Subs : receiver[s] = "running" => dispatcher[s] = "running"

\* C15 as claimed: once Err(Timeout) has been given to the error callback of
\* a send, the pending table has no entry for the send's message_seq.
C15_NoPendingLeakOnTimeout ==
    \A n \in Subs :
        (kind[n] = "Chat" /\ Delivered(n, "err_function", TimeoutResult)) =>
            message_seq[n] \notin message_buffer

\* C16 as claimed: once cancel(g) has returned Ok for the generation of a
\* send, the pending table has no entry for the send's message_seq.
C16_NoPendingLeakOnCancel ==
    \A n \in Subs :
        (kind[n] = "Chat" /\ gen[n] \in cancelOk /\ shellPc = "idle") =>
            message_seq[n] \notin message_buffer

C18_StreamDelivery ==
    /\ \A i, j \in DOMAIN streamLog :
         (i # j /\ streamLog[i].session = streamLog[j].session) =>
             streamLog[i].msg # streamLog[j].msg
    /\ \A i \in DOMAIN streamLog :
         \E k \in DOMAIN wire_in[streamLog[i].session] :
             wire_in[streamLog[i].session][k] = Distribute(streamLog[i].msg)
    /\ \A s \in Subs :
         Len(StreamMsgs(streamLog, s)) <= Len(SelectMsgs(wire_in[s]))

\* C18 witness: the dispatcher of a session has processed an ACK frame and a
\* Distribute frame, and the stream callback was invoked exactly once.
C18_Witness ==
    /\ acked # {}
    /\ Len(streamLog) = 1
    /\ \A s \in Subs : message_rx[s] = << >>
    /\ FramesRead = 2

\* C19 as claimed: a core has at most one session, counting the record with
\* the sender, receiver, watcher and dispatcher of the session; the record
\* in the slot is never replaced while the sub-tasks of the session it held
\* keep running.
C19_AtMostOneSession ==
    /\ Cardinality({s \in Subs : LiveSession(s)}) <= 1
    /\ \A s \in Subs : LiveSession(s) => session_record = s

\* A stream callback invoked by the dispatcher of session s has panicked.
StreamPanicked(s) ==
    \E i \in DOMAIN streamLog :
        streamLog[i].session = s /\ streamLog[i].panics

\* C20  Panic isolation: when a request callback panics in the pump, the
\* pump goes on with its loop and the record of that generation is gone;
\* when a stream callback panics, the dispatcher goes on with its loop.
\* In the end every result posted on a core where a callback panicked has
\* been given to its callback (unless cancel removed it), and every frame
\* queued for a dispatcher whose stream callback panicked has been
\* processed.
C20_PanicIsolation ==
    /\ [][panicked' # panicked =>
            /\ pumpPc' = "parked"
            /\ \A n \in panicked' : task_records'[gen[n]] # n]_vars
    /\ [][Len(streamLog') > Len(streamLog) => dispatcher' = dispatcher]_vars
    /\ <>[](/\ \A n \in Subs :
                (panicked # {} /\ posted[n] # << >>) =>
                    (Invocations(n) = 1 \/ gen[n] \in cancelOk)
            /\ \A s \in Subs :
                StreamPanicked(s) => message_rx[s] = << >>)

\* C20 witness: after the callback of one request panicked another request
\* got its callback, and after a stream callback panicked the next
\* Distribute frame of the session was given to the stream callback.
C20_Witness ==
    /\ \E i, j \in DOMAIN cbLog :
         i < j /\ cbLog[i].sub \in panicked /\ cbLog[j].sub # cbLog[i].sub
    /\ \E i, j \in DOMAIN streamLog :
         /\ i < j
         /\ streamLog[i].panics
         /\ streamLog[i].session = streamLog[j].session

--------------------------------------------------------------------------
\* C21  Generation correlation: every callback invocation is for the
\* request whose record was registered under the envelope's generation, the
\* generation it is given is the one the facade call of that request
\* returned, and the result it is given is one that request's task sent.
\* A cancel that answers Ok for a generation removes the record of the
\* request that was returned this generation and aborts its task, and
\* touches no other record and no other task.
C21_GenerationCorrelation ==
    /\ [](\A i \in DOMAIN cbLog :
            LET n == cbLog[i].sub
            IN /\ cbLog[i].generation = gen[n]
               /\ n + 1 \in DOMAIN returned
               /\ returned[n + 1] = cbLog[i].generation
               /\ cbLog[i].result \in Range(posted[n]))
    /\ [][\A g \in cancelOk' \ cancelOk :
            /\ g \in Range(returned)
            /\ task_records[g] # None
            /\ gen[task_records[g]] = g
            /\ returned[task_records[g] + 1] = g
            /\ task_records' = [task_records EXCEPT ![g] = None]
            /\ st'[task_records[g]] \notin {"gated", "running"}
            /\ \A n \in Subs : n # task_records[g] => st'[n] = st[n]]_vars

\* C21 witness: a connect_chat, whose returned generation is not the first
\* it minted, had its callback invoked, and another request was cancelled
\* by its returned generation.
C21_Witness ==
    /\ \E i \in DOMAIN cbLog :
         /\ kind[cbLog[i].sub] = "Session"
         /\ cbLog[i].generation = returned[cbLog[i].sub + 1]
         /\ cbLog[i].generation # cbLog[i].sub
    /\ \E n \in Subs : Submitted(n) /\ gen[n] \in cancelOk

--------------------------------------------------------------------------
\* The protocol-level failures: CaptchaError, SignupError, LoginError,
\* ChatConnError, MessageError
ProtocolErrors ==
    {"CaptchaError::FallbackError", "SignupError::FallbackError",
     "LoginError::FallbackError", "ChatConnError::FallbackError",
     "MessageError::MissingSession", "MessageError::FallbackError"}

\* C22  Error layering: the error callback of an operation is invoked with
\* NetworkError::Timeout or NetworkError::SysCancelled and with nothing
\* else (never UsrCancelled, never Aborted, never an event); the success
\* callback is invoked with the event of its own operation only; and every
\* protocol-level failure that is delivered is delivered to the success
\* callback, inside the event.  A request that cancel removed gets no
\* callback at all.
C22_ErrorLayering ==
    /\ \A i \in DOMAIN cbLog :
         /\ cbLog[i].via = "err_function" =>
              cbLog[i].result \in {ErrResult("Timeout"),
                                   ErrResult("SysCancelled")}
         /\ cbLog[i].via = "map_function" =>
              /\ cbLog[i].result.ok
              /\ cbLog[i].result.kind = kind[cbLog[i].sub]
              /\ cbLog[i].result.val \in Outcomes(kind[cbLog[i].sub])
         /\ cbLog[i].result.val \in ProtocolErrors =>
              cbLog[i].via = "map_function"
         /\ cbLog[i].result.val \notin {"UsrCancelled", "Aborted"}
    /\ \A n \in Subs : gen[n] \in cancelOk => Invocations(n) = 0

\* C22 witness: one request got Err(Timeout) through its error callback and
\* another a protocol-level failure through its success callback.
C22_Witness ==
    \E i, j \in DOMAIN cbLog :
        /\ cbLog[i].via = "err_function"
        /\ cbLog[i].result = ErrResult("Timeout")
        /\ cbLog[j].via = "map_function"
        /\ cbLog[j].result.val \in ProtocolErrors

--------------------------------------------------------------------------
\* C23  Handshake failure: when RealWsWorker::try_new fails, the task of the
\* connect_chat sends Session(Err(ChatConnError::FallbackError)) and the
\* step leaves the session slot, the dispatchers and the sub-tasks of
\* every session exactly as they were; the request never has a record in
\* the slot, a dispatcher or a sub-task; it gets no callback other than the
\* success callback with that event, and in the end it has got it, unless
\* cancel removed its record.
C23_HandshakeFailure ==
    /\ [][\A n \in Subs :
            (Posted(n, ChatConnFallbackError)'
                 /\ ~Posted(n, ChatConnFallbackError)) =>
                /\ session_record' = session_record
                /\ dispatcher' = dispatcher
                /\ sender' = sender
                /\ receiver' = receiver
                /\ message_rx' = message_rx]_vars
    /\ [](\A n \in Subs :
            Posted(n, ChatConnFallbackError) =>
                /\ session_record # n
                /\ dispatcher[n] = "none"
                /\ ~Established(n)
                /\ \A i \in DOMAIN cbLog :
                     cbLog[i].sub = n =>
                         /\ cbLog[i].via = "map_function"
                         /\ cbLog[i].result = ChatConnFallbackError)
    /\ <>[](\A n \in Subs :
              Posted(n, ChatConnFallbackError) =>
                  \/ Delivered(n, "map_function", ChatConnFallbackError)
                  \/ gen[n] \in cancelOk)

\* C23 witness: with the session of an earlier connect_chat in the slot, a
\* second connect_chat failed its handshake and got the failure through
\* its success callback; the slot still holds the earlier session.
C23_Witness ==
    \E m, n \in Subs :
        /\ m # n
        /\ session_record = m
        /\ Delivered(n, "map_function", ChatConnFallbackError)

--------------------------------------------------------------------------
\* C24  Mid-session failure: the step in which the receiver of a session
\* ends (the socket failed or closed) notifies no send and completes none.
\* A send that was in flight at that moment (its frame queued on that
\* session, waiting, no ACK with its message_seq read from a socket) is
\* never notified and never completes with MessageSent as long as no such
\* ACK is read; it does not hang: in the end Err(Timeout) has been given to
\* its error callback, unless cancel removed its record.
C24_MidSessionFailure ==
    /\ [][\A s \in Subs :
            (receiver[s] = "running" /\ receiver'[s] = "ended") =>
                /\ notified' = notified
                /\ message_buffer' = message_buffer
                /\ posted' = posted
                /\ result_q' = result_q]_vars
    /\ [](\A n \in in_flight :
            ~AckOnWire(message_seq[n]) =>
                /\ ~notified[n]
                /\ ~Posted(n, MessageSent)
                /\ \A i \in DOMAIN cbLog :
                     cbLog[i].sub = n =>
                         /\ cbLog[i].via = "err_function"
                         /\ cbLog[i].result = ErrResult("Timeout"))
    /\ <>[](\A n \in in_flight :
              \/ Delivered(n, "err_function", ErrResult("Timeout"))
              \/ gen[n] \in cancelOk
              \/ AckOnWire(message_seq[n]))

\* C24 witness: two sends were in flight when the receiver of their session
\* ended; the session is torn down and both got Err(Timeout) through their
\* error callbacks.
C24_Witness ==
    /\ Cardinality(in_flight) = 2
    /\ \A n \in in_flight :
         /\ Delivered(n, "err_function", ErrResult("Timeout"))
         /\ sender[sent_on[n]] = "ended"

--------------------------------------------------------------------------
\* C25  Watcher coordination: the shutdown signal of a session changes only
\* from untripped to tripped, only in a step of its watcher (a step that
\* changes nothing else) and only when the sender or the receiver of the
\* session has ended; and in the end, in every session of which one of the
\* two has ended, the signal is tripped and both have ended.
C25_WatcherCoordination ==
    /\ [][\A s \in Subs :
            /\ shutdown[s] => shutdown'[s]
            /\ (shutdown'[s] /\ ~shutdown[s]) =>
                  /\ Closed(s)
                  /\ UNCHANGED <<coreVars, panicked, message_id, message_seq,
                                 inner, chatVars, session_record, sender,
                                 receiver, dispatcher, message_rx, wire_in,
                                 streamLog, histVars>>]_vars
    /\ [](\A s \in Subs :
            (sender[s] = "ended" /\ receiver[s] = "running") => shutdown[s])
    /\ <>[](\A s \in Subs :
              Closed(s) => /\ shutdown[s]
                           /\ sender[s] = "ended"
                           /\ receiver[s] = "ended")

\* C25 witness: the receiver of a session ended while its sender was at
\* work on a queued frame; the watcher has tripped the signal and the sender
\* has ended too.
C25_Witness ==
    \E s \in Subs :
        /\ receiver[s] = "ended"
        /\ shutdown[s]
        /\ sender[s] = "ended"
        /\ \E n \in Subs : sent_on[n] = s

--------------------------------------------------------------------------
\* The state Live of a session: established, sender and receiver at work,
\* shutdown signal not tripped.
IsLive(s) ==
    /\ sender[s] = "running"
    /\ receiver[s] = "running"
    /\ ~shutdown[s]

--------------------------------------------------------------------------
\* C27  Result delivery order: the result channel is first in, first out and
\* the pump invokes the callbacks in the order of the channel.  A result is
\* posted at the tail of the channel; the channel loses only its head, and
\* only to the parked pump, which either holds it to invoke its callback
\* or finds no record for it (cancel removed it); a callback is invoked
\* only for the envelope the pump holds, before it takes the next.  Hence
\* of two results whose generations are not cancelled, the one posted first
\* has its callback invoked first, whatever the order of submission.
C27_DeliveryOrder ==
    /\ [][result_q' # result_q =>
            \/ /\ Len(result_q') = Len(result_q) + 1
               /\ IsPrefix(result_q, result_q')
               /\ UNCHANGED <<pumpPc, pumpEnv, cbLog>>
            \/ /\ result_q # << >>
               /\ result_q' = Tail(result_q)
               /\ pumpPc = "parked"
               /\ \/ /\ pumpPc' = "hold"
                     /\ pumpEnv' = Head(result_q)
                  \/ /\ pumpPc' = "parked"
                     /\ task_records[Head(result_q).generation] = None
                     /\ Head(result_q).generation \in cancelOk]_vars
    /\ [][cbLog' # cbLog =>
            /\ pumpPc = "hold"
            /\ pumpPc' = "parked"
            /\ result_q' = result_q
            /\ Len(cbLog') = Len(cbLog) + 1
            /\ IsPrefix(cbLog, cbLog')
            /\ cbLog'[Len(cbLog')].generation = pumpEnv.generation
            /\ cbLog'[Len(cbLog')].result = pumpEnv.result]_vars
    /\ [](\A i, j \in DOMAIN cbLog :
            i # j => cbLog[i].generation # cbLog[j].generation)

\* C27 witness: of two requests the one submitted second had its result
\* posted first and its callback invoked first; the callback of the other
\* followed.
C27_Witness ==
    /\ Len(cbLog) = 2
    /\ cbLog[1].sub = 1
    /\ cbLog[2].sub = 0
    /\ gen[0] < gen[1]

--------------------------------------------------------------------------
\* The send_chat_message calls made before submission n
EarlierSends(n) == {m \in Subs : m < n /\ kind[m] = "Chat"}

\* C28  message_seq uniqueness: the message_seq of a send_chat_message call
\* is the number of such calls made before it on the core, so it is
\* greater than that of every earlier call, distinct from every other
\* call's, and taken from a counter of its own, not the generation counter;
\* every entry of the pending table belongs to exactly one send, and a send
\* that inserts its notifier finds no entry under its message_seq.
C28_MessageSeqUnique ==
    /\ [](\A n \in Subs :
            (Submitted(n) /\ kind[n] = "Chat") =>
                /\ message_seq[n] = Cardinality(EarlierSends(n))
                /\ message_seq[n] < message_id
                /\ \A m \in EarlierSends(n) : message_seq[m] < message_seq[n])
    /\ [](message_id = Cardinality({n \in Subs : kind[n] = "Chat"}))
    /\ [](\A q \in message_buffer :
            Cardinality({n \in Subs : message_seq[n] = q}) = 1)
    /\ [][\A n \in Subs :
            (/\ inner[n] = "start"
             /\ inner'[n] # "start"
             /\ ~Posted(n, MissingSession)') =>
                /\ message_seq[n] \notin message_buffer
                /\ message_seq[n] \in message_buffer']_vars

\* C28 witness: two sends have their notifiers in the pending table at the
\* same time, under message_seq 0 and 1, while their generations are others.
C28_Witness ==
    /\ message_buffer = {0, 1}
    /\ \A n \in Subs : kind[n] = "Chat" /\ gen[n] # message_seq[n]
    /\ \A n \in Subs : inner[n] = "waiting"

--------------------------------------------------------------------------
\* C29  Receiver termination: the step in which the receiver of a session
\* ends (it read a Close frame, a transport error or a text frame that does
\* not decode) forwards nothing, and from then on the receiver stays ended,
\* reads no frame and the channel of the dispatcher gains no frame of that
\* session.  A frame that is neither text nor Close is read and skipped:
\* the receiver goes on, nothing is forwarded, no callback is invoked and
\* no send is notified.
C29_ReceiverTermination ==
    /\ [][\A s \in Subs :
            /\ (receiver[s] = "running" /\ receiver'[s] # "running") =>
                  /\ receiver'[s] = "ended"
                  /\ wire_in' = wire_in
                  /\ message_rx' = message_rx
            /\ receiver[s] = "ended" =>
                  /\ receiver'[s] = "ended"
                  /\ wire_in'[s] = wire_in[s]
                  /\ Len(message_rx'[s]) <= Len(message_rx[s])
            /\ (/\ Len(wire_in'[s]) > Len(wire_in[s])
                /\ wire_in'[s][Len(wire_in'[s])] = OtherFrame) =>
                  /\ receiver' = receiver
                  /\ message_rx' = message_rx
                  /\ streamLog' = streamLog
                  /\ notified' = notified
                  /\ message_buffer' = message_buffer]_vars
    /\ [](\A s \in Subs :
            \A i \in DOMAIN message_rx[s] : message_rx[s][i] # OtherFrame)

\* C29 witness: the receiver of a session skipped a frame that is neither
\* text nor Close, then read a chat message, which was forwarded and given
\* to the stream callback, and then ended.
C29_Witness ==
    \E s \in Subs :
        /\ receiver[s] = "ended"
        /\ Len(wire_in[s]) = 2
        /\ wire_in[s][1] = OtherFrame
        /\ wire_in[s][2].type = "Distribute"
        /\ Len(StreamMsgs(streamLog, s)) = 1


\* A step in which the dispatcher of session s takes an ACK frame for
\* message_seq q from message_rx.
TakesACK(s, q) ==
    /\ dispatcher[s] = "running"
    /\ message_rx[s] # << >>
    /\ Head(message_rx[s]) = [type |-> "ACK", msg |-> "", message_seq |-> q]
    /\ Len(message_rx'[s]) < Len(message_rx[s])

\* C30 (pending before enqueue): in the step that hands a Send frame to the
\* sender channel of a session the pending table holds the frame's
\* message_seq, and it holds it for as long as the send waits without having
\* been acknowledged, timed out or cancelled; so the dispatcher that takes
\* an ACK for such a send finds the notifier, notifies it and goes on; and a
\* send that was notified while it runs is waiting on the notifier, and the
\* next result it sends is MessageSent, never Timeout.
C30_PendingBeforeEnqueue ==
    /\ [][\A s \in Subs :
            Len(to_sender'[s]) > Len(to_sender[s]) =>
                /\ to_sender'[s][Len(to_sender'[s])] \in message_buffer'
                /\ \E n \in Subs :
                      /\ message_seq[n] = to_sender'[s][Len(to_sender'[s])]
                      /\ inner[n] = "start"
                      /\ inner'[n] = "waiting"]_vars
    /\ [](\A n \in Subs :
            (st[n] = "running" /\ inner[n] = "waiting" /\ ~notified[n]) =>
                message_seq[n] \in message_buffer)
    /\ [][\A s \in Subs : \A n \in Subs :
            (/\ TakesACK(s, message_seq[n])
             /\ st[n] = "running"
             /\ inner[n] = "waiting"
             /\ ~notified[n]) =>
                /\ notified'[n]
                /\ dispatcher'[s] = "running"
                /\ message_rx'[s] = Tail(message_rx[s])]_vars
    /\ [](\A n \in Subs :
            (notified[n] /\ st[n] = "running") => inner[n] = "waiting")
    /\ [][\A n \in Subs :
            (notified[n] /\ st[n] = "running" /\ posted'[n] # posted[n]) =>
                posted'[n] = Append(posted[n], MessageSent)]_vars

\* C30 witness: a send whose frame was handed to the sender of a session
\* has been acknowledged while it waited and has sent MessageSent, while
\* another send waits with its notifier in the pending table.
C30_Witness ==
    \E n \in Subs : \E m \in Subs \ {n} :
        /\ sent_on[n] # None
        /\ message_seq[n] \in acked
        /\ posted[n] = << MessageSent >>
        /\ sent_on[m] # None
        /\ st[m] = "running"
        /\ inner[m] = "waiting"
        /\ ~notified[m]
        /\ message_seq[m] \in message_buffer


\* C31 (connect before send): the task of a connect_chat sends
\* Ok(ChatMetaData) in a step that leaves its SessionRecord in the slot, and
\* the slot holds a record whenever such a result was sent, hence whenever
\* the success callback was invoked with it; a send_chat_message called after
\* such an invocation never sends MissingSession, so none is delivered.
C31_ConnectBeforeSend ==
    /\ [][\A n \in Subs :
            (~Posted(n, ChatMetaData) /\ Posted(n, ChatMetaData)') =>
                session_record' = n]_vars
    /\ [](\A n \in Subs :
            (Posted(n, ChatMetaData) \/ Delivered(n, "map_function", ChatMetaData))
                => session_record # None)
    /\ [](\A m \in Subs :
            after_connect[m] =>
                /\ ~Posted(m, MissingSession)
                /\ ~Delivered(m, "map_function", MissingSession))

\* C31 witness: a send called after the success callback of connect_chat
\* had been invoked has had its MessageSent delivered.
C31_Witness ==
    \E m \in Subs :
        /\ after_connect[m]
        /\ sent_on[m] = session_record
        /\ Delivered(m, "map_function", MessageSent)


\* C32 (single result per task): the task of a submission sends at most one
\* envelope: it sends into the result channel, under its own generation, one
\* of Ok(event of its operation), Err(Timeout) and Err(SysCancelled), and
\* ends in the step that sends it; this also when the inner future can
\* complete, the timer can elapse and the token is tripped in one state.
C32_SingleResult ==
    /\ [](\A n \in Subs :
            /\ Len(posted[n]) <= 1
            /\ \A i \in DOMAIN posted[n] :
                  posted[n][i] \in
                      {TimeoutResult, SysCancelledResult} \cup
                      {OkResult(kind[n], v) : v \in Outcomes(kind[n])})
    /\ [](\A g \in GenVals :
            Cardinality({i \in DOMAIN result_q :
                           result_q[i].generation = g}) <= 1)
    /\ [][\A n \in Subs :
            posted'[n] # posted[n] =>
                /\ posted[n] = << >>
                /\ Len(posted'[n]) = 1
                /\ st[n] = "running"
                /\ st'[n] = "done"
                /\ result_q' =
                     Append(result_q, WithGeneration(gen[n], posted'[n][1]))]_vars

\* C32 witness: with the token tripped, one task has sent Ok(event) and
\* another Err(SysCancelled), each as its only result.
C32_Witness ==
    /\ cancellation_token
    /\ \E n \in Subs : \E m \in Subs \ {n} :
          /\ posted[n] = << SysCancelledResult >>
          /\ Len(posted[m]) = 1
          /\ posted[m][1].ok
          /\ st[n] = "done"
          /\ st[m] = "done"


\* C33 (connect/cancel race): a connect_chat whose generation cancel
\* answered Ok for establishes no session: its SessionRecord is not in the
\* slot and none of its sender, receiver and dispatcher runs.
C33_ConnectCancelRace ==
    \A n \in Subs :
        (kind[n] = "Session" /\ gen[n] \in cancelOk) =>
            /\ session_record # n
            /\ sender[n] # "running"
            /\ receiver[n] # "running"
            /\ dispatcher[n] # "running"


\* C34 (pump termination): the result pump does not stay on the shutdown
\* branch of its select! for ever: from some point on it is at its channel
\* receive (parked on it, or holding what it dequeued), and a result that
\* is queued when the token is tripped is still dequeued.
C34_PumpTermination ==
    /\ <>[](pumpPc \notin {"shutdown_branch", "loop"})
    /\ \A n \in Subs :
          (cancellation_token /\ \E i \in DOMAIN result_q :
                                      result_q[i].generation = gen[n])
              ~> (\A i \in DOMAIN result_q : result_q[i].generation # gen[n])


\* C35 (send order on the wire): of two send_chat_message calls on a core
\* with a live session, the earlier one (the smaller message_seq), unless it
\* was cancelled, has handed its Send frame to the sender channel before
\* the later one hands its own, so the frames queued for the sender are in
\* increasing message_seq order.
C35_SendOrder ==
    /\ \A a \in Subs : \A b \in Subs :
          (/\ kind[a] = "Chat"
           /\ kind[b] = "Chat"
           /\ Submitted(a)
           /\ message_seq[a] < message_seq[b]
           /\ gen[a] \notin cancelOk
           /\ sent_on[b] # None) => sent_on[a] = sent_on[b]
    /\ \A s \in Subs : \A i \in DOMAIN to_sender[s] :
          \A j \in DOMAIN to_sender[s] :
              i < j => to_sender[s][i] < to_sender[s][j]


\* C36 (dispatcher start gate): whenever a receiver or a dispatcher of a
\* session exists, or a frame is queued for a dispatcher, a SessionRecord is
\* in the slot; a dispatcher that does not yet run leaves its queue as it
\* is; and the step in which a dispatcher takes a Distribute frame finds a
\* record in the slot and invokes the stream callback of that record, so
\* the frame is not dropped for want of a record.
C36_DispatcherStartGate ==
    /\ [](\A s \in Subs :
            (\/ receiver[s] # "none"
             \/ dispatcher[s] # "none"
             \/ message_rx[s] # << >>) => session_record # None)
    /\ [][\A s \in Subs :
            Len(message_rx'[s]) < Len(message_rx[s]) =>
                /\ dispatcher[s] = "running"
                /\ session_record # None
                /\ Head(message_rx[s]).type = "Distribute" =>
                      /\ Len(streamLog') = Len(streamLog) + 1
                      /\ streamLog'[Len(streamLog')].session = s
                      /\ streamLog'[Len(streamLog')].record = session_record
                      /\ streamLog'[Len(streamLog')].msg =
                             Head(message_rx[s]).msg]_vars

\* C36 witness: the dispatcher of the session in the slot has given both
\* Distribute frames its receiver read to the stream callback of its record.
C36_Witness ==
    \E s \in Subs :
        /\ session_record = s
        /\ dispatcher[s] = "running"
        /\ receiver[s] = "running"
        /\ Len(wire_in[s]) = 2
        /\ message_rx[s] = << >>
        /\ Len(streamLog) = 2
        /\ \A i \in DOMAIN streamLog :
              streamLog[i].session = s /\ streamLog[i].record = s


\* C37 (cancel is local): a step off the pump in which a TaskRecord leaves
\* the registry is a cancel(g) that answers Ok: it removes the record of g
\* alone, aborts no task but that of g, and leaves the generation counter,
\* the message_seq counter, the session slot, the result channel and the
\* pending table as they are; and every submission that is registered and
\* not cancelled itself ends with exactly one callback invocation.
C37_CancelIsLocal ==
    /\ [][(/\ pumpPc' = pumpPc
           /\ \E h \in GenVals :
                 task_records[h] # None /\ task_records'[h] = None) =>
              \E g \in GenVals :
                  /\ task_records[g] # None
                  /\ task_records' = [task_records EXCEPT ![g] = None]
                  /\ cancelOk' = cancelOk \cup {g}
                  /\ \A m \in Subs : gen[m] # g => st'[m] = st[m]
                  /\ generation' = generation
                  /\ message_id' = message_id
                  /\ session_record' = session_record
                  /\ result_q' = result_q
                  /\ message_buffer' = message_buffer
                  /\ cbLog' = cbLog]_vars
    /\ <>[](\A n \in Subs :
              (RecordInserted(n) /\ gen[n] \notin cancelOk) =>
                  Invocations(n) = 1)

\* C37 witness: a send that waited for its ACK was cancelled with Ok and
\* got no callback, while the other send got its callback afterwards; the
\* record of the session is still in the slot.
C37_Witness ==
    \E n \in Subs : \E m \in Subs \ {n} :
        /\ gen[m] \in cancelOk
        /\ sent_on[m] # None
        /\ gen[n] \notin cancelOk
        /\ Invocations(n) = 1
        /\ Invocations(m) = 0
        /\ session_record # None
        /\ message_id = 2


--------------------------------------------------------------------------
\* The shell: App (shell/eframe_shell.rs) and its pages (page/*.rs).  The
\* core is seen from the shell as its facade: a request returns the next
\* generation, and its callback, which sends one message to the bus, is
\* invoked at most once, later, on the runtime thread.

\* Inputs of the user in a run, at most
MaxClicks == 3

\* Stream messages sent to the bus in a run, at most
MaxStream == 3

\* if self.stream_buffer.len() < 1024
StreamBufferCap == 1024

\* The variables of the core but the generation counter
coreRest == <<task_records, cancellation_token, result_q, nsub, kind, gen,
              st, gate, posted, shellPc, shellSub, pumpPc, pumpSub, pumpEnv,
              cbLog, returned, cancelOk, dropped, panicked, message_id,
              message_seq, inner, chatVars, wsVars, sent_on, late, in_flight,
              after_connect>>

\* The fields of the LoginPage
loginVars == <<captcha_generation, captcha_id, captcha_base64,
               captcha_texture, login_generation, login_state, recent>>

\* AppMessage
AppMsg(t, tag, arg) == [type |-> t, tag |-> tag, arg |-> arg]

\* A comparison that every generation passes (not the code's)
IsCurrentAlways(field, g) == TRUE

\* self.captcha_generation == Some(generation), and the same for
\* login_generation
IsCurrent(field, g) == field = g

\* A buffer without a limit (not the code's)
BufferStreamUnbounded(buf, m) == Append(buf, m)

\* if self.stream_buffer.len() < 1024 { push } else { error!("Drop ...") }
BufferStream(buf, m) ==
    IF Len(buf) < StreamBufferCap THEN Append(buf, m) ELSE buf

\* The message the callbacks of a request send to the bus
CallbackMessage(r, ok) ==
    CASE r.kind = "Captcha" ->
             AppMsg("Login", IF ok THEN "CaptchaFetched" ELSE "CaptchaFailed",
                    r.generation)
      [] r.kind = "Login" ->
             AppMsg("Login", IF ok THEN "LoginSuccess" ELSE "LoginFailed",
                    r.generation)
      [] r.kind = "Session" ->
             AppMsg("ReqNavigate",
                    IF ok THEN "ChatConnSuccess" ELSE "ChatConnFailure", None)
      [] r.kind = "Chat" ->
             AppMsg("Lobby", IF ok THEN "MessageSent" ELSE "MessageFailed", 0)

\* A facade call of the shell: the generation it returns is registered as
\* outstanding; connect_chat takes a stream_generation first.
Request(k) ==
    LET g == IF k = "Session" THEN FetchAdd(generation) ELSE generation
    IN /\ generation' = FetchAdd(g)
       /\ outstanding' = outstanding \cup {[kind |-> k, generation |-> g]}

\* LoginPage::new: the fields of a new page; fetch_real_captcha is called
NewLoginPage ==
    /\ Request("Captcha")
    /\ captcha_generation' = generation
    /\ captcha_id' = None
    /\ captcha_base64' = None
    /\ captcha_texture' = None
    /\ login_generation' = None
    /\ login_state' = "None"
    /\ recent' = [captcha |-> generation, login |-> None]

\* The LoginPage is dropped with the page that replaces it
DropLoginPage ==
    /\ captcha_generation' = None
    /\ captcha_id' = None
    /\ captcha_base64' = None
    /\ captcha_texture' = None
    /\ login_generation' = None
    /\ login_state' = "None"
    /\ recent' = [captcha |-> None, login |-> None]

\* App::new, and the App after a logout from the Lobby with the session
\* still open and the buffer one short of its limit
AppInit ==
    /\ task_records = [g \in GenVals |-> None]
    /\ cancellation_token = FALSE
    /\ result_q = << >>
    /\ nsub = 0
    /\ kind = [n \in Subs |-> "none"]
    /\ gen = [n \in Subs |-> None]
    /\ st = [n \in Subs |-> "none"]
    /\ gate = [n \in Subs |-> FALSE]
    /\ posted = [n \in Subs |-> << >>]
    /\ shellPc = "idle"
    /\ shellSub = None
    /\ pumpPc = "parked"
    /\ pumpSub = None
    /\ pumpEnv = NoEnv
    /\ cbLog = << >>
    /\ returned = << >>
    /\ cancelOk = {}
    /\ dropped = {}
    /\ panicked = {}
    /\ message_id = 0
    /\ message_seq = [n \in Subs |-> None]
    /\ inner = [n \in Subs |-> "none"]
    /\ message_buffer = {}
    /\ notified = [n \in Subs |-> FALSE]
    /\ to_sender = [n \in Subs |-> << >>]
    /\ acked = {}
    /\ session_record = None
    /\ sender = [n \in Subs |-> "none"]
    /\ receiver = [n \in Subs |-> "none"]
    /\ shutdown = [n \in Subs |-> FALSE]
    /\ dispatcher = [n \in Subs |-> "none"]
    /\ message_rx = [n \in Subs |-> << >>]
    /\ wire_in = [n \in Subs |-> << >>]
    /\ streamLog = << >>
    /\ sent_on = [n \in Subs |-> None]
    /\ late = [n \in Subs |-> None]
    /\ in_flight = {}
    /\ after_connect = [n \in Subs |-> FALSE]
    /\ lifecycle = "Running"
    /\ current_page = "Login"
    /\ app_message_rx = << >>
    /\ chat_history = << >>
    /\ captcha_id = None
    /\ captcha_base64 = None
    /\ captcha_texture = None
    /\ login_generation = None
    /\ login_state = "None"
    /\ clicks = 0
    /\ stale = {}
    /\ \/ /\ generation = 1
          /\ captcha_generation = 0
          /\ chat_generation = None
          /\ streaming = FALSE
          /\ arrived = 0
          /\ stream_buffer = << >>
       \/ /\ generation = 5
          /\ captcha_generation = 4
          /\ chat_generation = 3
          /\ streaming = TRUE
          /\ arrived = StreamBufferCap - 1
          /\ stream_buffer = [i \in 1 .. (StreamBufferCap - 1) |-> i]
    /\ outstanding = {[kind |-> "Captcha", generation |-> captcha_generation]}
    /\ recent = [captcha |-> captcha_generation, login |-> None]

\* --- the user and the frame (view of each page, eframe update) ---

\* A message the shell thread sent to the bus itself: from a view, from
\* update_one, or at the head of a frame
FromShell(m) ==
    \/ m.type \in {"Exiting", "Quit"}
    \/ m.type = "ReqNavigate" /\ m.tag \in {"LoginPage", "SignupPage", "LobbyPage"}
    \/ m = AppMsg("Login", "ChatFailed", None)

\* The frame calls view after update has taken from the bus until it was
\* empty: what the bus holds when a view runs came from the runtime thread
\* since; no view runs once the lifecycle is QuitingShell
ViewRuns ==
    /\ lifecycle # "QuitingShell"
    /\ \A i \in DOMAIN app_message_rx : ~FromShell(app_message_rx[i])

\* LoginPage::view: the fetched image is taken and loaded as a texture;
\* load_base64_texture gives None for an image it cannot decode
LoginViewLoadTexture(loads) ==
    /\ ViewRuns
    /\ current_page = "Login"
    /\ captcha_base64 # None
    /\ captcha_base64' = None
    /\ captcha_texture' = IF loads THEN captcha_base64 ELSE None
    /\ UNCHANGED <<generation, coreRest, lifecycle, current_page,
                   chat_generation, stream_buffer, app_message_rx,
                   chat_history, captcha_generation, captcha_id,
                   login_generation, login_state, outstanding, streaming,
                   arrived, clicks, recent, stale>>

\* LoginPage::view: a click on the captcha image drops the texture and
\* fetches another captcha
ClickCaptchaImage ==
    /\ ViewRuns
    /\ clicks < MaxClicks
    /\ current_page = "Login"
    /\ captcha_base64 = None
    /\ captcha_texture # None
    /\ clicks' = clicks + 1
    /\ captcha_texture' = None
    /\ Request("Captcha")
    /\ captcha_generation' = generation
    /\ recent' = [recent EXCEPT !.captcha = generation]
    /\ UNCHANGED <<coreRest, lifecycle, current_page, chat_generation,
                   stream_buffer, app_message_rx, chat_history, captcha_id,
                   captcha_base64, login_generation, login_state, streaming,
                   arrived, stale>>

\* LoginPage::view: without a texture and without a fetch under way the
\* page shows the Reload button
ClickReloadCaptcha ==
    /\ ViewRuns
    /\ clicks < MaxClicks
    /\ current_page = "Login"
    /\ captcha_base64 = None
    /\ captcha_texture = None
    /\ captcha_generation = None
    /\ clicks' = clicks + 1
    /\ Request("Captcha")
    /\ captcha_generation' = generation
    /\ recent' = [recent EXCEPT !.captcha = generation]
    /\ UNCHANGED <<coreRest, lifecycle, current_page, chat_generation,
                   stream_buffer, app_message_rx, chat_history, captcha_id,
                   captcha_base64, captcha_texture, login_generation,
                   login_state, streaming, arrived, stale>>

\* LoginPage::view: Sign up
ClickSignup ==
    /\ ViewRuns
    /\ clicks < MaxClicks
    /\ current_page = "Login"
    /\ captcha_base64 = None
    /\ clicks' = clicks + 1
    /\ app_message_rx' =
           Append(app_message_rx, AppMsg("ReqNavigate", "SignupPage", None))
    /\ UNCHANGED <<generation, coreRest, lifecycle, current_page,
                   chat_generation, stream_buffer, chat_history, loginVars,
                   outstanding, streaming, arrived, stale>>

\* LoginPage::view: Submit is enabled in the states None, Failure and
\* ChatFailed; login() is called with self.captcha_id.unwrap()
ClickSubmit ==
    /\ ViewRuns
    /\ clicks < MaxClicks
    /\ current_page = "Login"
    /\ captcha_base64 = None
    /\ login_state \in {"None", "Failure", "ChatFailed"}
    /\ captcha_id # None
    /\ clicks' = clicks + 1
    /\ login_state' = "RequestSent"
    /\ Request("Login")
    /\ login_generation' = generation
    /\ recent' = [recent EXCEPT !.login = generation]
    /\ UNCHANGED <<coreRest, lifecycle, current_page, chat_generation,
                   stream_buffer, app_message_rx, chat_history,
                   captcha_generation, captcha_id, captcha_base64,
                   captcha_texture, streaming, arrived, stale>>

\* SignupPage::view: Go Login
ClickGoLogin ==
    /\ ViewRuns
    /\ clicks < MaxClicks
    /\ current_page = "Signup"
    /\ clicks' = clicks + 1
    /\ app_message_rx' =
           Append(app_message_rx, AppMsg("ReqNavigate", "LoginPage", None))
    /\ UNCHANGED <<generation, coreRest, lifecycle, current_page,
                   chat_generation, stream_buffer, chat_history, loginVars,
                   outstanding, streaming, arrived, stale>>

\* LobbyPage::view: Logout
ClickLogout ==
    /\ ViewRuns
    /\ clicks < MaxClicks
    /\ current_page = "Lobby"
    /\ clicks' = clicks + 1
    /\ app_message_rx' =
           Append(app_message_rx, AppMsg("ReqNavigate", "LoginPage", None))
    /\ UNCHANGED <<generation, coreRest, lifecycle, current_page,
                   chat_generation, stream_buffer, chat_history, loginVars,
                   outstanding, streaming, arrived, stale>>

\* LobbyPage::view: Send calls send_chat_message
ClickSend ==
    /\ ViewRuns
    /\ clicks < MaxClicks
    /\ current_page = "Lobby"
    /\ clicks' = clicks + 1
    /\ Request("Chat")
    /\ UNCHANGED <<coreRest, lifecycle, current_page, chat_generation,
                   stream_buffer, app_message_rx, chat_history, loginVars,
                   streaming, arrived, stale>>

\* eframe update: a close request while Running is cancelled and Exiting
\* is sent to the bus
CloseRequested ==
    /\ lifecycle = "Running"
    /\ clicks < MaxClicks
    /\ clicks' = clicks + 1
    /\ app_message_rx' = Append(app_message_rx, AppMsg("Exiting", "", None))
    /\ UNCHANGED <<generation, coreRest, lifecycle, current_page,
                   chat_generation, stream_buffer, chat_history, loginVars,
                   outstanding, streaming, arrived, stale>>

\* poll_internal_events: on the Shutdown page, past its deadline, Quit is
\* what the frame handles next
PollInternalEvents ==
    /\ lifecycle = "PendingQuit"
    /\ current_page = "Shutdown"
    /\ \A i \in DOMAIN app_message_rx : app_message_rx[i].type # "Quit"
    /\ app_message_rx' = Append(app_message_rx, AppMsg("Quit", "", None))
    /\ UNCHANGED <<generation, coreRest, lifecycle, current_page,
                   chat_generation, stream_buffer, chat_history, loginVars,
                   outstanding, streaming, arrived, clicks, stale>>

\* --- the core, seen from the shell ---

\* The callback of an outstanding request is invoked, once, with success
\* or failure; a successful connect_chat leaves a session that streams
Answer(r, ok) ==
    /\ r \in outstanding
    /\ outstanding' = outstanding \ {r}
    /\ app_message_rx' = Append(app_message_rx, CallbackMessage(r, ok))
    /\ streaming' = (streaming \/ (r.kind = "Session" /\ ok))
    /\ UNCHANGED <<generation, coreRest, lifecycle, current_page,
                   chat_generation, stream_buffer, chat_history, loginVars,
                   arrived, clicks, stale>>

\* The stream closure of Route::LobbyPage: AppMessage::Stream(message);
\* the messages are numbered in the order they are sent to the bus
StreamArrives ==
    /\ streaming
    /\ \/ arrived < MaxStream
       \/ /\ arrived >= StreamBufferCap - 1
          /\ arrived < StreamBufferCap - 1 + MaxStream
    /\ arrived' = arrived + 1
    /\ app_message_rx' =
           Append(app_message_rx, AppMsg("Stream", "", arrived + 1))
    /\ UNCHANGED <<generation, coreRest, lifecycle, current_page,
                   chat_generation, stream_buffer, chat_history, loginVars,
                   outstanding, streaming, clicks, stale>>

\* --- App::update_one, one message of the bus per step ---

\* AppMessage::Exiting: self.shutdown() puts the Shutdown page in place
UpdateExiting ==
    /\ app_message_rx # << >>
    /\ Head(app_message_rx).type = "Exiting"
    /\ app_message_rx' = Tail(app_message_rx)
    /\ lifecycle' = "PendingQuit"
    /\ current_page' = "Shutdown"
    /\ chat_history' = << >>
    /\ DropLoginPage
    /\ UNCHANGED <<generation, coreRest, chat_generation, stream_buffer,
                   outstanding, streaming, arrived, clicks, stale>>

\* AppMessage::Quit
UpdateQuit ==
    /\ app_message_rx # << >>
    /\ Head(app_message_rx).type = "Quit"
    /\ app_message_rx' = Tail(app_message_rx)
    /\ lifecycle' = "QuitingShell"
    /\ UNCHANGED <<generation, coreRest, current_page, chat_generation,
                   stream_buffer, chat_history, loginVars, outstanding,
                   streaming, arrived, clicks, stale>>

\* AppMessage::Lobby: LobbyPage::update_one pushes the text of MessageSent
\* and MessageFailed to chat_history; on another page the message is lost
UpdateLobby ==
    /\ app_message_rx # << >>
    /\ Head(app_message_rx).type = "Lobby"
    /\ app_message_rx' = Tail(app_message_rx)
    /\ chat_history' = IF current_page = "Lobby"
                       THEN Append(chat_history, Head(app_message_rx).arg)
                       ELSE chat_history
    /\ UNCHANGED <<generation, coreRest, lifecycle, current_page,
                   chat_generation, stream_buffer, loginVars, outstanding,
                   streaming, arrived, clicks, stale>>

\* LoginPage::update_one, CaptchaFetched(generation, id, image)
LoginCaptchaFetched(g) ==
    IF IsCurrent(captcha_generation, g)
    THEN /\ captcha_id' = g
         /\ captcha_base64' = g
         /\ UNCHANGED stale
    ELSE /\ stale' = stale \cup {<<"CaptchaFetched", g>>}
         /\ UNCHANGED <<captcha_id, captcha_base64>>

\* LoginPage::update_one, CaptchaFailed(generation)
LoginCaptchaFailed(g) ==
    IF IsCurrent(captcha_generation, g)
    THEN /\ captcha_generation' = None
         /\ captcha_texture' = None
         /\ UNCHANGED stale
    ELSE /\ stale' = stale \cup {<<"CaptchaFailed", g>>}
         /\ UNCHANGED <<captcha_generation, captcha_texture>>

\* LoginPage::update_one, LoginSuccess(generation, address, jwt)
LoginLoginSuccess(g) ==
    IF IsCurrent(login_generation, g)
    THEN /\ login_state' = "Success"
         /\ app_message_rx' =
                Append(Tail(app_message_rx),
                       AppMsg("ReqNavigate", "LobbyPage", None))
         /\ UNCHANGED stale
    ELSE /\ stale' = stale \cup {<<"LoginSuccess", g>>}
         /\ app_message_rx' = Tail(app_message_rx)
         /\ UNCHANGED login_state

\* LoginPage::update_one, LoginFailed(generation)
LoginLoginFailed(g) ==
    IF IsCurrent(login_generation, g)
    THEN /\ login_state' = "Failure"
         /\ UNCHANGED stale
    ELSE /\ stale' = stale \cup {<<"LoginFailed", g>>}
         /\ UNCHANGED login_state

\* AppMessage::Login: handed to the LoginPage if that is the current page
UpdateLogin ==
    /\ app_message_rx # << >>
    /\ Head(app_message_rx).type = "Login"
    /\ LET m == Head(app_message_rx)
       IN IF current_page # "Login"
          THEN /\ app_message_rx' = Tail(app_message_rx)
               /\ UNCHANGED <<loginVars, stale>>
          ELSE CASE m.tag = "CaptchaFetched" ->
                        /\ LoginCaptchaFetched(m.arg)
                        /\ app_message_rx' = Tail(app_message_rx)
                        /\ UNCHANGED <<captcha_generation, captcha_texture,
                                       login_generation, login_state, recent>>
                 [] m.tag = "CaptchaFailed" ->
                        /\ LoginCaptchaFailed(m.arg)
                        /\ app_message_rx' = Tail(app_message_rx)
                        /\ UNCHANGED <<captcha_id, captcha_base64,
                                       login_generation, login_state, recent>>
                 [] m.tag = "LoginSuccess" ->
                        /\ LoginLoginSuccess(m.arg)
                        /\ UNCHANGED <<captcha_generation, captcha_id,
                                       captcha_base64, captcha_texture,
                                       login_generation, recent>>
                 [] m.tag = "LoginFailed" ->
                        /\ LoginLoginFailed(m.arg)
                        /\ app_message_rx' = Tail(app_message_rx)
                        /\ UNCHANGED <<captcha_generation, captcha_id,
                                       captcha_base64, captcha_texture,
                                       login_generation, recent>>
                 [] m.tag = "ChatFailed" ->
                        /\ login_state' = "ChatFailed"
                        /\ app_message_rx' = Tail(app_message_rx)
                        /\ UNCHANGED <<captcha_generation, captcha_id,
                                       captcha_base64, captcha_texture,
                                       login_generation, recent, stale>>
    /\ UNCHANGED <<generation, coreRest, lifecycle, current_page,
                   chat_generation, stream_buffer, chat_history, outstanding,
                   streaming, arrived, clicks>>

\* AppMessage::ReqNavigate(Route::LoginPage): a new LoginPage
NavigateLoginPage ==
    /\ app_message_rx # << >>
    /\ Head(app_message_rx) = AppMsg("ReqNavigate", "LoginPage", None)
    /\ app_message_rx' = Tail(app_message_rx)
    /\ current_page' = "Login"
    /\ chat_history' = << >>
    /\ NewLoginPage
    /\ UNCHANGED <<coreRest, lifecycle, chat_generation, stream_buffer,
                   streaming, arrived, clicks, stale>>

\* AppMessage::ReqNavigate(Route::SignupPage): a new SignupPage
NavigateSignupPage ==
    /\ app_message_rx # << >>
    /\ Head(app_message_rx) = AppMsg("ReqNavigate", "SignupPage", None)
    /\ app_message_rx' = Tail(app_message_rx)
    /\ current_page' = "Signup"
    /\ chat_history' = << >>
    /\ DropLoginPage
    /\ UNCHANGED <<generation, coreRest, lifecycle, chat_generation,
                   stream_buffer, outstanding, streaming, arrived, clicks,
                   stale>>

\* AppMessage::ReqNavigate(Route::LobbyPage): connect_chat is called; the
\* page stays
NavigateLobbyPage ==
    /\ app_message_rx # << >>
    /\ Head(app_message_rx) = AppMsg("ReqNavigate", "LobbyPage", None)
    /\ app_message_rx' = Tail(app_message_rx)
    /\ Request("Session")
    /\ chat_generation' = FetchAdd(generation)
    /\ UNCHANGED <<coreRest, lifecycle, current_page, stream_buffer,
                   chat_history, loginVars, streaming, arrived, clicks,
                   stale>>

\* AppMessage::ReqNavigate(Route::ChatConnSuccess): a new LobbyPage
NavigateChatConnSuccess ==
    /\ app_message_rx # << >>
    /\ Head(app_message_rx) = AppMsg("ReqNavigate", "ChatConnSuccess", None)
    /\ app_message_rx' = Tail(app_message_rx)
    /\ current_page' = "Lobby"
    /\ chat_history' = << >>
    /\ DropLoginPage
    /\ UNCHANGED <<generation, coreRest, lifecycle, chat_generation,
                   stream_buffer, outstanding, streaming, arrived, clicks,
                   stale>>

\* AppMessage::ReqNavigate(Route::ChatConnFailure): Login(ChatFailed) is
\* sent to the bus
NavigateChatConnFailure ==
    /\ app_message_rx # << >>
    /\ Head(app_message_rx) = AppMsg("ReqNavigate", "ChatConnFailure", None)
    /\ app_message_rx' =
           Append(Tail(app_message_rx), AppMsg("Login", "ChatFailed", None))
    /\ UNCHANGED <<generation, coreRest, lifecycle, current_page,
                   chat_generation, stream_buffer, chat_history, loginVars,
                   outstanding, streaming, arrived, clicks, stale>>

\* AppMessage::Stream: on the Lobby page the buffer is drained to the page
\* and the message follows (LobbyPage::update_one pushes message.content);
\* on another page the message goes to the buffer
UpdateStream ==
    /\ app_message_rx # << >>
    /\ Head(app_message_rx).type = "Stream"
    /\ app_message_rx' = Tail(app_message_rx)
    /\ IF current_page = "Lobby"
       THEN /\ chat_history' = (chat_history \o stream_buffer)
                                \o <<Head(app_message_rx).arg>>
            /\ stream_buffer' = << >>
       ELSE /\ stream_buffer' =
                   BufferStream(stream_buffer, Head(app_message_rx).arg)
            /\ UNCHANGED chat_history
    /\ UNCHANGED <<generation, coreRest, lifecycle, current_page,
                   chat_generation, loginVars, outstanding, streaming,
                   arrived, clicks, stale>>

NextApp ==
    \/ \E loads \in BOOLEAN : LoginViewLoadTexture(loads)
    \/ ClickCaptchaImage
    \/ ClickReloadCaptcha
    \/ ClickSignup
    \/ ClickSubmit
    \/ ClickGoLogin
    \/ ClickLogout
    \/ ClickSend
    \/ CloseRequested
    \/ PollInternalEvents
    \/ \E r \in outstanding : \E ok \in BOOLEAN : Answer(r, ok)
    \/ StreamArrives
    \/ UpdateExiting
    \/ UpdateQuit
    \/ UpdateLobby
    \/ UpdateLogin
    \/ NavigateLoginPage
    \/ NavigateSignupPage
    \/ NavigateLobbyPage
    \/ NavigateChatConnSuccess
    \/ NavigateChatConnFailure
    \/ UpdateStream

AppSpec == AppInit /\ [][NextApp]_vars


--------------------------------------------------------------------------
\* Properties of the shell

\* This step is App::update_one of the first message of the bus
Taken == app_message_rx # << >> /\ ~IsPrefix(app_message_rx, app_message_rx')

\* The message that arrived last of those in a sequence of stream messages
\* (they are numbered as they arrive), 0 for none
Newest(buf) == IF buf = << >> THEN 0 ELSE buf[Len(buf)]

\* C38: stream messages that reach the App on a page other than the Lobby
\* are appended to stream_buffer, each after the messages that arrived
\* before it, until the buffer holds 1024 of them, and then they are
\* dropped; a stream message that reaches the App on the Lobby page sends
\* the buffered messages to the page, in their order, then itself, and
\* leaves the buffer empty; no other step touches the buffer.
C38_StreamBuffer ==
    /\ [](Len(stream_buffer) <= StreamBufferCap)
    /\ [][IF Taken /\ Head(app_message_rx).type = "Stream"
          THEN /\ Newest(stream_buffer) < Head(app_message_rx).arg
               /\ IF current_page = "Lobby"
                  THEN /\ chat_history' = (chat_history \o stream_buffer)
                                           \o <<Head(app_message_rx).arg>>
                       /\ stream_buffer' = << >>
                  ELSE /\ chat_history' = chat_history
                       /\ stream_buffer' =
                              IF Len(stream_buffer) < StreamBufferCap
                              THEN Append(stream_buffer,
                                          Head(app_message_rx).arg)
                              ELSE stream_buffer
          ELSE stream_buffer' = stream_buffer]_vars

\* C38 (witness): the buffer was filled to its limit on the Login page,
\* the message after that was dropped, and the next one, on the Lobby
\* page, took the 1024 buffered messages to the page before itself.
C38_Witness ==
    /\ current_page = "Lobby"
    /\ stream_buffer = << >>
    /\ Len(chat_history) = StreamBufferCap + 1
    /\ \A i \in 1 .. StreamBufferCap : chat_history[i] = i
    /\ chat_history[StreamBufferCap + 1] = StreamBufferCap + 2

\* C39: a CaptchaFetched or CaptchaFailed message whose generation is not
\* that of the most recent captcha request of the page, and a LoginSuccess
\* or LoginFailed message whose generation is not that of its most recent
\* login request, changes none of the captcha and login fields of the
\* page, and neither the page nor the bus beyond the removal of the
\* message; the generations the page holds are those of these requests.
C39_StaleIgnored ==
    /\ [](/\ captcha_generation \in {None, recent.captcha}
          /\ login_generation \in {None, recent.login})
    /\ [][(/\ Taken
           /\ Head(app_message_rx).type = "Login"
           /\ \/ /\ Head(app_message_rx).tag
                        \in {"CaptchaFetched", "CaptchaFailed"}
                 /\ Head(app_message_rx).arg # recent.captcha
              \/ /\ Head(app_message_rx).tag
                        \in {"LoginSuccess", "LoginFailed"}
                 /\ Head(app_message_rx).arg # recent.login)
          => /\ UNCHANGED <<captcha_generation, captcha_id, captcha_base64,
                            captcha_texture, login_generation, login_state,
                            current_page, chat_generation>>
             /\ app_message_rx' = Tail(app_message_rx)]_vars

\* C39 (witness): the login of a page that was left for the Signup page
\* succeeded, its LoginSuccess reached the LoginPage made afterwards, and
\* that page is as it was: no login of its own, no connect_chat.
C39_Witness ==
    /\ <<"LoginSuccess", 1>> \in stale
    /\ current_page = "Login"
    /\ recent.login = None
    /\ login_state = "None"
    /\ chat_generation = None
    /\ app_message_rx = << >>

==========================================================================
